---- MODULE Spec2Model ----
(***************************************************************************)
(* Model of the RLBot C++ interface: the transport reader and its buffer   *)
(* pools (BotManagerImpl/Connection handleRead, Pool, Message), the writer *)
(* queue, and the per-bot contexts with their service threads.             *)
(*                                                                         *)
(* The module holds these state machines over one set of variables:       *)
(*   SpecRead     reader, codec, buffer pools, transport lifecycle         *)
(*   SpecFail     the reader on a connection that may fail at any read     *)
(*   SpecWrite    writer queue, write completions, waitForWriterIdle       *)
(*   SpecConnect  BotManagerBase::connect, its setup steps, first frames   *)
(*   Spec         router, bot contexts, worker threads, teardown           *)
(*   SpecSpawn    spawnBots on one handshake                               *)
(*   SpecSession  match after match on one connection                      *)
(*   SpecOutputs  the frames the agents' answers produce                   *)
(*   SpecInvalid  one match with frames that fail verification            *)
(*   SpecReconnect  terminate, join and connect again on the same object   *)
(*   SpecPool     handle copies, moves, drops and acquires on two threads  *)
(*   SpecPredict  one match with ball predictions and a loopback message   *)
(*   SpecWake     SpecPredict with spurious wakeups and fair worker threads*)
(*   SpecLoopback agents that send match comms from their update pass      *)
(* The completion-port (_WIN32) branches of the source are the ones        *)
(* modelled where the two backends differ.                                 *)
(***************************************************************************)
EXTENDS Integers, Sequences, FiniteSets, TLC

(***************************************************************************)
(* Bounds and program constants                                            *)
(***************************************************************************)

\* largest payload the encoder accepts (std::numeric_limits<uint16_t>::max (),
\* scaled down)
MaxPayloadLen == 5

\* number of frames the server puts on the wire
MaxFrames == 3

\* number of sendInterfacePacket calls made by user threads
MaxEnqueues == 4

\* frames one vectored write carries at most (Connection.cpp: 32, scaled down)
PREALLOCATED_BUFFERS == 2

\* Message header: type (2 bytes, big-endian), size (2 bytes, big-endian)
HEADER_SIZE == 4

\* 1 << CHAR_BIT
ByteBase == 256

\* Pool.h: BUFFER_SIZE = 2 * uint16 max
BUFFER_SIZE == 2 * MaxPayloadLen

\* std::array<std::shared_ptr<Pool<Buffer>>, 4>
NumPools == 4

\* buffer identities available to the allocator
MaxBuffers == (NumPools * 2) + MaxFrames

BufIds == 1 .. MaxBuffers

Shards == 1 .. NumPools

Max(a, b) == IF a >= b THEN a ELSE b

Min(a, b) == IF a <= b THEN a ELSE b

VARIABLES
    \* ---- reader / pools / transport lifecycle (SpecRead) ----
    phase,            \* "constructed", "running", "joined"
    sent,             \* frames the server sends: sequence of [type, payload]
    wire,             \* bytes of the stream not yet delivered to a read
    peerClosed,       \* the peer has closed its side
    ioPc,             \* service thread: "none", "top", "blocked", "exited"
    quit,             \* ConnectionImpl::quit / m_quit
    running,          \* ConnectionImpl::running / m_running
    userQuit,         \* history: terminate() was called by the user
    readReq,          \* size of the outstanding read request, -1 if none
    inBuffer,         \* current read buffer (0 = null Ref)
    inStartOffset,
    inEndOffset,
    mem,              \* contents of every buffer
    count,            \* reference count of every buffer
    shardOf,          \* pool shard a buffer belongs to (0 = not constructed)
    free,             \* m_pool of every shard
    watermark,        \* m_watermark of every shard
    bufferPoolIndex,  \* round-robin counter (kept modulo NumPools)
    held,             \* Messages the router still holds; fresh = emitted by
                      \* the most recent read
    handled,          \* history: frames passed to handleMessage, in order
    lastRead,         \* history: Messages emitted by the most recent read
    \* ---- writer (SpecWrite) ----
    outputQueue,      \* queued Messages: [buffer, size, tag]
    iov,              \* lengths handed to the outstanding vectored write
    outStartOffset,   \* bytes of the front frame already written
    writerIdle,       \* m_writerIdle
    writeInFlight,    \* a write submission is outstanding in the kernel
    wqEvents,         \* COMPLETION_KEY_WRITE_QUEUE events posted, not yet dequeued
    quitRequested,    \* history: terminate () has been called on the transport
    submitted,        \* the byte ranges handed to the socket by the outstanding
                      \* submission: [n, from, len] per iov entry
    outstanding,      \* write submissions issued and not yet completed
    sockBytes,        \* history: the bytes the socket has taken, each <<frame, offset>>
    enqCount,         \* history: number of sendInterfacePacket calls by user threads
    enqSizes,         \* history: payload size of every one of those calls
    waiterPc,         \* a thread in waitForWriterIdle: "none", "waiting", "returned"
    \* ---- connection setup (SpecConnect) ----
    sock,             \* ConnectionImpl::sock: "zero" (value-initialised), "open",
                      \* "invalid" (INVALID_SOCKET)
    iocpHandle,       \* ConnectionImpl::iocpHandle is non-null
    connects,         \* history: number of BotManagerBase::connect calls
    lastConnect,      \* history: inputs and result of the most recent of them
    invalidLog,       \* history: per frame that failed verification, the control
                      \* messages and game packets handled before it
    \* ---- router, bot contexts, worker threads (Spec) ----
    botsSpawned,      \* !bots.empty ()
    controlSeen,      \* how many of the three control-plane messages are cached
    inRead,           \* Messages of the current read already passed to handleMessage
    nextTick,         \* tick of the next GamePacket the server sends
    commsSent,        \* MatchComms the server has sent
    disconnectSent,   \* the server has sent its DisconnectSignal
    pc,               \* per context: position of the thread running its service loop
    botQuit,          \* BotContext::m_quit
    dtor,             \* per context's destructor: "none", "joining", "done"
    gamePacketMessage,      \* BotContext::m_gamePacketMessage
    matchCommsIn,           \* BotContext::m_matchCommsIn
    matchCommsWork,         \* BotContext::m_matchCommsWork
    gp,               \* serviceLoop local gamePacketMessage
    passLog,          \* history: callbacks made in the current serviceLoop pass
    setLog,           \* history: ticks stored by setGamePacket since the last collect
    collected,        \* history: setLog and comms as of the collect of the current pass
    updates,          \* history: ticks passed to update
    rejected,         \* history: MatchComms addMatchComm refused
    outLog,           \* history: frames in the order sendInterfacePacket queued them
    \* ---- the match and spawnBots (SpecSpawn, SpecSession) ----
    batchHivemind,    \* BotManagerImpl::batchHivemind
    controllables,    \* controllables () of the ControllableTeamInfo the server sends
    enableRendering,  \* MatchConfiguration: enable_rendering () != AlwaysOff
    enableStateSetting,     \* MatchConfiguration: enable_state_setting ()
    agent,            \* what the agents answer: loadout, render messages, game state
    cachedControl,    \* which of the three cached control-plane Messages are set
    controlCount,     \* history: control-plane messages handled, per kind
    bots,             \* BotManagerImpl::bots: [indices, botIndices, gen] per context
    sp,               \* locals of spawnBots: loop position, botIndices, name
    spawnCount,       \* history: runs of spawnBots that got past its guards
    spawnLog,         \* history: calls of the agent factory
    \* ---- ball predictions ----
    predSent,         \* history: per BallPrediction the server has sent, the
                      \* tick of the GamePacket that follows it and whether a
                      \* context took it
    ballPredictionMessage,  \* BotContext::m_ballPredictionMessage: number of
                      \* the BallPrediction in predSent, 0 if none
    bp,               \* serviceLoop's local ballPredictionMessage
    predLog,          \* history: per context, the GamePacket tick and the
                      \* BallPrediction of every update call
    \* ---- MatchComm loopback ----
    wakeups,          \* COMPLETION_KEY_BOT_WAKEUP events posted, not yet dequeued
    loopbacks,        \* history: MatchComms the agents have sent
    loopCalls,        \* history: the loopOnce calls made for a loopback, each
                      \* <<context, calling thread>>
    \* ---- threads sharing the pools (SpecPool) ----
    tpc,              \* position of every thread: "idle", "taken" (getObject
                      \* has left its lock), "recycle" (putObject has seen the
                      \* last reference go)
    tobj,             \* the object getObject or putObject has in hand
    handles           \* number of Refs every thread holds to every object

\* transport lifecycle
lifeVars == <<phase, ioPc, running, userQuit>>

\* the server's byte stream
streamVars == <<sent, wire, peerClosed>>

\* reader, pools and writer: the fields of TransportState
transportVars == <<quit, readReq, inBuffer, inStartOffset, inEndOffset, mem, count,
                   shardOf, free, watermark, bufferPoolIndex, held, handled,
                   lastRead, outputQueue, iov, outStartOffset, writerIdle,
                   writeInFlight, wqEvents, quitRequested, submitted, outstanding,
                   sockBytes>>

userVars == <<enqCount, enqSizes, waiterPc>>

\* the socket, the completion port and the connect calls made so far
connVars == <<sock, iocpHandle, connects, lastConnect>>

\* the server's message stream towards the router
serverVars == <<inRead, nextTick, commsSent, disconnectSent>>

\* BotManagerImpl::bots and the fields of every BotContext
botVars == <<botsSpawned, controlSeen, pc, botQuit, dtor, gamePacketMessage,
             matchCommsIn, matchCommsWork, gp>>

histVars == <<passLog, setLog, collected, updates, rejected, outLog>>

\* the handshake the server sends and the agents' answers
matchVars == <<batchHivemind, controllables, enableRendering, enableStateSetting,
               agent>>

\* the cached control-plane messages and spawnBots
spawnVars == <<cachedControl, controlCount, bots, sp, spawnCount, spawnLog>>

ctxVars == <<serverVars, botVars, histVars, matchVars, spawnVars>>

\* the frames the verifier has refused
faultVars == <<invalidLog>>

\* the BallPrediction slot of every context and what update was given
predVars == <<predSent, ballPredictionMessage, bp, predLog>>

\* the MatchComms the agents send and the wake-ups they cause
loopVars == <<wakeups, loopbacks, loopCalls>>

\* the threads that take, copy, move and drop Refs
poolVars == <<tpc, tobj, handles>>

vars == <<lifeVars, streamVars, connVars, faultVars, predVars, loopVars, poolVars,
          transportVars, userVars, ctxVars>>

(***************************************************************************)
(* Codec: BotManagerImpl::buildMessage and Message::type/size/span         *)
(***************************************************************************)

\* payload bytes of the i-th frame
PayloadOf(i, len) == [j \in 1 .. len |-> 16 * i + j]

\* message type of the i-th frame
TypeOf(i) == ((i - 1) % 3) + 1

\* BotManagerImpl::buildMessage: the bytes written to the front of the buffer
EncodeHeader(type, size) ==
    << type \div ByteBase, type % ByteBase, size \div ByteBase, size % ByteBase >>

BuildMessage(type, payload) == EncodeHeader(type, Len(payload)) \o payload

RECURSIVE Concat(_)
Concat(ss) == IF ss = <<>> THEN <<>> ELSE Head(ss) \o Concat(Tail(ss))

\* Message::type
MessageType(m, b, off) == m[b][off] * ByteBase + m[b][off + 1]

\* Message::size
MessageSize(m, b, off) == m[b][off + 2] * ByteBase + m[b][off + 3]

\* Message::sizeWithHeader
SizeWithHeader(m, b, off) == MessageSize(m, b, off) + 4

\* Message::span, without the header
MessagePayload(m, b, off) ==
    [j \in 1 .. MessageSize(m, b, off) |-> m[b][off + 4 + j - 1]]

(***************************************************************************)
(* Pool: getObject, putObject, Ref copy                                    *)
(* The operators work on a record s that carries the reader state.         *)
(***************************************************************************)

FreshBuffer(s) == CHOOSE b \in BufIds :
                     /\ s.shardOf[b] = 0
                     /\ \A c \in BufIds : s.shardOf[c] = 0 => b <= c

\* Pool::getObject on one shard; the object is returned in s.obj
GetObject(s, shard) ==
    LET p == s.free[shard] IN
    IF p # <<>>
    THEN LET b == p[Len(p)] IN
         [s EXCEPT !.free[shard] = SubSeq(p, 1, Len(p) - 1),
                   !.count[b] = @ + 1,
                   !.obj = b]
    ELSE LET b == FreshBuffer(s) IN
         [s EXCEPT !.shardOf[b] = shard,
                   !.count[b] = @ + 1,
                   !.obj = b]

\* ConnectionImpl::getBuffer: round-robin over the shards
GetBuffer(s) ==
    LET index == s.bufferPoolIndex IN
    GetObject([s EXCEPT !.bufferPoolIndex = (index + 1) % NumPools],
              (index % NumPools) + 1)

\* Pool::putObject: drop one reference, recycle on the last one
PutObject(s, b) ==
    LET old == s.count[b]
        t   == [s EXCEPT !.count[b] = old - 1]
        sh  == s.shardOf[b]
    IN  IF old > 1
        THEN t
        ELSE [t EXCEPT !.free[sh] = Append(@, b),
                       !.watermark[sh] = Max(@, Len(t.free[sh]) + 1)]

\* a Ref copy that forgets to count the new reference
RefCopyUncounted(s, b) == s

\* Pool::Ref::operator= (Ref const &): a new reference
RefCopy(s, b) == [s EXCEPT !.count[b] = @ + 1]

\* Pool::Ref::reset
RefReset(s, b) == IF b = 0 THEN s ELSE PutObject(s, b)

\* threads that use the pools at the same time
MaxPoolThreads == 2

PoolThreads == 1 .. MaxPoolThreads

\* Refs a thread holds at most
MaxHandles == 2

\* objects the pools construct at most
MaxPooled == 3

\* a putObject that recycles on every drop
LastReferenceAlways(old) == TRUE

\* putObject: count.fetch_sub (1) > 1 means other references remain
LastReference(old) == ~(old > 1)

(***************************************************************************)
(* Reader: BotManagerImpl::handleRead / Connection::handleRead             *)
(***************************************************************************)

TransportState ==
    [inBuffer |-> inBuffer, inStartOffset |-> inStartOffset,
     inEndOffset |-> inEndOffset, mem |-> mem, count |-> count,
     shardOf |-> shardOf, free |-> free, watermark |-> watermark,
     bufferPoolIndex |-> bufferPoolIndex, held |-> held, handled |-> handled,
     quit |-> quit, readReq |-> readReq, lastRead |-> lastRead,
     outputQueue |-> outputQueue, iov |-> iov, outStartOffset |-> outStartOffset,
     writerIdle |-> writerIdle, writeInFlight |-> writeInFlight,
     wqEvents |-> wqEvents, quitRequested |-> quitRequested,
     submitted |-> submitted, outstanding |-> outstanding,
     sockBytes |-> sockBytes, obj |-> 0]

\* ConnectionImpl::terminate: release the idle waiters, raise quit, post the
\* quit completion (the quit flag stands for the posted completion as well)
TerminateOp(s) ==
    [s EXCEPT !.writerIdle = TRUE, !.quit = TRUE, !.quitRequested = TRUE]

\* handleMessage as the reader sees it: the router either stores the Message
\* (a cached control-plane message, a context slot) or lets it go out of scope
HandleMessage(s, keepIt) ==
    LET b   == s.inBuffer
        off == s.inStartOffset
        rec == [type |-> MessageType(s.mem, b, off),
                payload |-> MessagePayload(s.mem, b, off)]
        t   == [s EXCEPT !.handled = Append(@, rec),
                         !.lastRead = Append(@, [buffer |-> b, offset |-> off])]
    IN  IF keepIt
        THEN [t EXCEPT !.held = Append(@, [buffer |-> b, offset |-> off, fresh |-> TRUE])]
        ELSE RefReset(t, b)

\* "total message exceeds buffer boundary; move to new buffer"
MoveMessage(s) ==
    LET available == s.inEndOffset - s.inStartOffset
        old == s.inBuffer
        g   == GetBuffer(s)
        new == g.obj
        cp  == [g EXCEPT !.mem[new] =
                   [j \in 0 .. BUFFER_SIZE - 1 |->
                      IF j < available THEN s.mem[old][s.inStartOffset + j]
                      ELSE g.mem[new][j]]]
        r   == RefReset(cp, old)
    IN  [r EXCEPT !.inBuffer = new,
                  !.inEndOffset = s.inEndOffset - s.inStartOffset,
                  !.inStartOffset = 0]

\* the while loop of handleRead; k counts the Messages emitted by this read
RECURSIVE ParseLoop(_, _, _)
ParseLoop(s, keep, k) ==
    IF s.inEndOffset - s.inStartOffset >= HEADER_SIZE
    THEN LET available == s.inEndOffset - s.inStartOffset
             b    == s.inBuffer
             m    == RefCopy(s, b)              \* Message (m_inBuffer, m_inStartOffset)
             size == SizeWithHeader(s.mem, b, s.inStartOffset)
         IN  IF size > available
             THEN \* need to read more data for complete message
                  IF s.inEndOffset = BUFFER_SIZE
                  THEN RefReset(MoveMessage(m), b)
                  ELSE RefReset(m, b)
             ELSE LET h == HandleMessage(m, k \in keep)
                  IN  ParseLoop([h EXCEPT !.inStartOffset = @ + size], keep, k + 1)
    ELSE s

\* a reader that starts over at offset 0 of the buffer it already has
RotateInPlace(s) ==
    IF s.inStartOffset = s.inEndOffset
    THEN [s EXCEPT !.inStartOffset = 0, !.inEndOffset = 0]
    ELSE s

\* "complete packet read so start next read on a new buffer"
Rotate(s) ==
    IF s.inStartOffset = s.inEndOffset
    THEN LET g == GetBuffer(s)
             r == RefReset(g, s.inBuffer)
         IN  [r EXCEPT !.inBuffer = g.obj, !.inStartOffset = 0, !.inEndOffset = 0]
    ELSE s

\* ConnectionImpl::requestRead: read into [inEndOffset, capacity)
RequestRead(s) == [s EXCEPT !.readReq = BUFFER_SIZE - s.inEndOffset]

\* a reader that takes no byte count for a disconnect
PeerDisconnectedNever(cnt) == FALSE

\* handleRead: if (count_ == 0)
PeerDisconnected(cnt) == cnt = 0

\* handleRead (count_)
HandleRead(s, cnt, keep) ==
    IF PeerDisconnected(cnt)
    THEN \* peer disconnected: terminate ()
         [TerminateOp(s) EXCEPT !.readReq = -1]
    ELSE LET e == [s EXCEPT !.inEndOffset = @ + cnt]
         IN  RequestRead(Rotate(ParseLoop(e, keep, 1)))

\* the kernel stores the first cnt bytes of the stream at [inEndOffset, ...)
Deliver(m, b, end, bytes, cnt) ==
    [m EXCEPT ![b] = [j \in 0 .. BUFFER_SIZE - 1 |->
                        IF j >= end /\ j < end + cnt THEN bytes[j - end + 1]
                        ELSE m[b][j]]]

(***************************************************************************)
(* Writer: sendInterfacePacket / enqueueMessage, requestWriteLocked,       *)
(* handleWrite                                                             *)
(***************************************************************************)

RECURSIVE SumSeq(_)
SumSeq(q) == IF q = <<>> THEN 0 ELSE Head(q) + SumSeq(Tail(q))

\* an in-flight check that never finds a submission outstanding
InFlightNever(s) == FALSE

\* requestWriteLocked: !iov.empty ()
InFlight(s) == s.iov # <<>>

\* the bytes a submission covers, in the order of its iov entries
RECURSIVE BytesOf(_)
BytesOf(sub) ==
    IF sub = <<>> THEN <<>>
    ELSE [j \in 1 .. Head(sub).len |-> <<Head(sub).n, Head(sub).from + j - 1>>]
         \o BytesOf(Tail(sub))

\* requestWriteLocked: build the iov from the queue front and submit it,
\* unless a submission is already outstanding
RequestWriteLocked(s) ==
    IF InFlight(s)
    THEN s
    ELSE LET n == Min(Len(s.outputQueue), PREALLOCATED_BUFFERS)
             startOffset == [i \in 1 .. n |-> IF i = 1 THEN s.outStartOffset ELSE 0]
         IN  [s EXCEPT !.iov = [i \in 1 .. n |->
                                  s.outputQueue[i].size - startOffset[i]],
                       !.writeInFlight = (n > 0),
                       !.submitted = [i \in 1 .. n |->
                                        [n |-> s.outputQueue[i].tag.n,
                                         from |-> startOffset[i],
                                         len |-> s.outputQueue[i].size - startOffset[i]]],
                       !.outstanding = IF n > 0 THEN @ + 1 ELSE @]

\* ConnectionImpl::requestWrite
RequestWrite(s) == IF s.outputQueue = <<>> THEN s ELSE RequestWriteLocked(s)

\* a writer queue that takes new Messages at its front
QueueInsertFront(q, m) == <<m>> \o q

\* where a new Message goes in the writer queue (emplace_back)
QueueInsert(q, m) == Append(q, m)

\* a size check that lets every payload through
TooLargeNever(size) == FALSE

\* size > std::numeric_limits<std::uint16_t>::max ()
TooLarge(size) == size > MaxPayloadLen

\* Connection::sendInterfacePacket / BotManagerImpl::enqueueMessage with a
\* payload of the given size; tag identifies the frame
SendInterfacePacket(s, size, tag) ==
    IF TooLarge(size)
    THEN \* "Message payload is too large to encode"
         s
    ELSE LET g == GetBuffer(s)
             b == g.obj
             bytes == BuildMessage(tag.kind, [j \in 1 .. size |-> 0])
             w == [g EXCEPT !.mem[b] = [j \in 0 .. BUFFER_SIZE - 1 |->
                                          IF j < Len(bytes) THEN bytes[j + 1]
                                          ELSE g.mem[b][j]],
                            !.writerIdle = FALSE,
                            !.outputQueue = QueueInsert(@, [buffer |-> b,
                                                           size |-> size + 4,
                                                           tag |-> tag])]
         IN  IF Len(w.outputQueue) = 1
             THEN RequestWriteLocked(w)
             ELSE [w EXCEPT !.wqEvents = @ + 1]

\* the while loop of handleWrite: number of whole frames covered by cnt bytes
\* and the resulting partial-write offset
RECURSIVE WriteLoop(_, _, _, _)
WriteLoop(q, k, cnt, off) ==
    IF cnt > 0
    THEN LET rem == q[k + 1].size - off
         IN  IF cnt < rem
             THEN [done |-> k, off |-> off + cnt]
             ELSE WriteLoop(q, k + 1, cnt - rem, 0)
    ELSE [done |-> k, off |-> off]

RECURSIVE ReleaseAll(_, _)
ReleaseAll(s, q) ==
    IF q = <<>> THEN s ELSE ReleaseAll(RefReset(s, Head(q).buffer), Tail(q))

\* handleWrite (count_)
HandleWrite(s, cnt) ==
    LET r == WriteLoop(s.outputQueue, 0, cnt, s.outStartOffset)
        e == ReleaseAll([s EXCEPT
                           !.outStartOffset = r.off,
                           !.outputQueue = SubSeq(@, r.done + 1, Len(@)),
                           !.iov = SubSeq(@, r.done + 1, Len(@)),
                           !.writeInFlight = FALSE,
                           !.sockBytes = @ \o SubSeq(BytesOf(s.submitted), 1, cnt),
                           !.submitted = <<>>,
                           !.outstanding = @ - 1],
                        SubSeq(s.outputQueue, 1, r.done))
    IN  IF e.outputQueue = <<>>
        THEN [e EXCEPT !.writerIdle = TRUE]
        ELSE RequestWriteLocked(e)

\* ConnectionImpl::join after the thread has been joined: the queue is
\* cleared and quit is lowered
JoinOp(s) ==
    ReleaseAll([s EXCEPT !.outputQueue = <<>>, !.quit = FALSE], s.outputQueue)

(***************************************************************************)
(* Transport actions                                                       *)
(***************************************************************************)

SetTransport(s) ==
    /\ inBuffer' = s.inBuffer
    /\ inStartOffset' = s.inStartOffset
    /\ inEndOffset' = s.inEndOffset
    /\ mem' = s.mem
    /\ count' = s.count
    /\ shardOf' = s.shardOf
    /\ free' = s.free
    /\ watermark' = s.watermark
    /\ bufferPoolIndex' = s.bufferPoolIndex
    /\ held' = s.held
    /\ handled' = s.handled
    /\ lastRead' = s.lastRead
    /\ quit' = s.quit
    /\ readReq' = s.readReq
    /\ outputQueue' = s.outputQueue
    /\ iov' = s.iov
    /\ outStartOffset' = s.outStartOffset
    /\ writerIdle' = s.writerIdle
    /\ writeInFlight' = s.writeInFlight
    /\ wqEvents' = s.wqEvents
    /\ quitRequested' = s.quitRequested
    /\ submitted' = s.submitted
    /\ outstanding' = s.outstanding
    /\ sockBytes' = s.sockBytes

\* Connection::connect / BotManagerImpl::run, all setup steps succeeding
Connect ==
    /\ phase = "constructed"
    /\ ~running
    /\ LET g == GetBuffer(TransportState)
       IN  SetTransport(RequestRead([g EXCEPT !.inBuffer = g.obj]))
    /\ ioPc' = "top"
    /\ running' = TRUE
    /\ phase' = "running"
    /\ sock' = "open"
    /\ iocpHandle' = TRUE
    /\ UNCHANGED <<userQuit, streamVars, connects, lastConnect, faultVars, poolVars, loopVars, predVars, userVars,
                   ctxVars>>

\* serviceThread: while (!quit); leaving the loop calls terminate ()
IoTop ==
    /\ ioPc = "top"
    /\ IF quit
       THEN ioPc' = "exited" /\ SetTransport(TerminateOp(TransportState))
       ELSE ioPc' = "blocked" /\ UNCHANGED transportVars
    /\ UNCHANGED <<phase, running, userQuit, streamVars, connVars, faultVars, poolVars, loopVars, predVars, userVars, ctxVars>>

\* a read completion is dequeued and handleRead runs; the router keeps or
\* drops each Message it is handed
IoRead ==
    /\ ioPc = "blocked"
    /\ readReq >= 0
    /\ \E cnt \in 0 .. BUFFER_SIZE :
         /\ IF readReq = 0 THEN cnt = 0
            ELSE IF wire = <<>> THEN peerClosed /\ cnt = 0
            ELSE cnt >= 1 /\ cnt <= Min(readReq, Len(wire))
         /\ LET s0 == [TransportState EXCEPT
                         !.mem = Deliver(mem, inBuffer, inEndOffset, wire, cnt),
                         !.lastRead = <<>>,
                         !.held = [i \in 1 .. Len(held) |->
                                     [held[i] EXCEPT !.fresh = FALSE]]]
                n  == Len(HandleRead(s0, cnt, {}).handled) - Len(handled)
            IN  \E keep \in SUBSET (1 .. n) : SetTransport(HandleRead(s0, cnt, keep))
         /\ wire' = SubSeq(wire, cnt + 1, Len(wire))
    /\ ioPc' = "top"
    /\ UNCHANGED <<phase, running, userQuit, sent, peerClosed, connVars, faultVars, poolVars, loopVars, predVars, userVars,
                   ctxVars>>

\* the quit completion is dequeued: "chain to next thread", then return
IoQuit ==
    /\ ioPc = "blocked"
    /\ quit
    /\ ioPc' = "exited"
    /\ SetTransport(TerminateOp(TransportState))
    /\ UNCHANGED <<phase, running, userQuit, streamVars, connVars, faultVars, poolVars, loopVars, predVars, userVars, ctxVars>>

\* GetQueuedCompletionStatus reports a failure (the outstanding read has
\* failed): break, then terminate () behind the loop
IoFail ==
    /\ ioPc = "blocked"
    /\ readReq >= 0
    /\ ioPc' = "exited"
    /\ SetTransport(TerminateOp(TransportState))
    /\ UNCHANGED <<phase, running, userQuit, streamVars, connVars, faultVars, poolVars, loopVars, predVars, userVars, ctxVars>>

\* a write completion is dequeued and handleWrite runs; the socket has taken
\* some or all of the bytes submitted
IoWrite ==
    /\ ioPc = "blocked"
    /\ writeInFlight
    /\ \E cnt \in 1 .. Len(BytesOf(submitted)) :
         SetTransport(HandleWrite(TransportState, cnt))
    /\ ioPc' = "top"
    /\ UNCHANGED <<phase, running, userQuit, streamVars, connVars, faultVars, poolVars, loopVars, predVars, userVars, ctxVars>>

\* a write-queue completion is dequeued: requestWrite ()
IoWriteQueue ==
    /\ ioPc = "blocked"
    /\ wqEvents > 0
    /\ SetTransport(RequestWrite([TransportState EXCEPT !.wqEvents = @ - 1]))
    /\ ioPc' = "top"
    /\ UNCHANGED <<phase, running, userQuit, streamVars, connVars, faultVars, poolVars, loopVars, predVars, userVars, ctxVars>>

\* the user calls terminate ()
Terminate ==
    /\ phase = "running"
    /\ ~userQuit
    /\ userQuit' = TRUE
    /\ SetTransport(TerminateOp(TransportState))
    /\ UNCHANGED <<phase, ioPc, running, streamVars, connVars, faultVars, poolVars, loopVars, predVars, userVars, ctxVars>>

\* the server closes the connection after its last byte
PeerClose ==
    /\ phase = "running"
    /\ wire = <<>>
    /\ ~peerClosed
    /\ peerClosed' = TRUE
    /\ UNCHANGED <<lifeVars, sent, wire, connVars, faultVars, poolVars, loopVars, predVars, transportVars, userVars, ctxVars>>

\* ConnectionImpl::join: returns once the service thread has exited
Join ==
    /\ phase = "running"
    /\ running
    /\ ioPc = "exited"
    /\ SetTransport(JoinOp(TransportState))
    /\ running' = FALSE
    /\ phase' = "joined"
    /\ sock' = "invalid"
    /\ iocpHandle' = FALSE
    /\ UNCHANGED <<ioPc, userQuit, streamVars, connects, lastConnect, faultVars, poolVars, loopVars, predVars, userVars,
                   ctxVars>>

\* the connect calls a run makes
MaxConnects == 3

\* the setup steps of Connection::connect, in order
SetupSteps == <<"WSAStartup", "resolve", "socket", "connect", "TCP_NODELAY",
                "SO_RCVBUF", "SO_SNDBUF", "CreateIoCompletionPort">>

\* agentId_ and getenv ("RLBOT_AGENT_ID"), which is read only when agentId_
\* is null
AgentIdArgs == {"null", "id"}

AgentIdEnvs == {"unset", "empty", "id"}

\* MessageType::ConnectionSettings
ConnectionSettingsType == 11

\* payload size of the ConnectionSettings frame
ConnectionSettingsSize == 1

\* a connect that does not look for an agent id
AgentIdAlways(arg, env) == TRUE

\* BotManagerBase::connect: agentId_ || (env && *env)
AgentIdAvailable(arg, env) == arg # "null" \/ env \notin {"unset", "empty"}

\* a connect that starts the service thread before its setup steps
ServiceThreadStartsAlways(failAt) == TRUE

\* Connection::connect reaches std::thread (&Connection::serviceThread) only
\* when no setup step has returned
ServiceThreadStarts(failAt) == failAt = 0

\* BotManagerBase::connect (host, service, agentId): Connection::connect and
\* sendConnectionSettings; failAt is the setup step the system fails, 0 if none
BotConnect ==
    /\ phase \in {"constructed", "running"}
    /\ connects < MaxConnects
    /\ connects' = connects + 1
    /\ \E arg \in AgentIdArgs :
       \E env \in (IF arg = "null" THEN AgentIdEnvs ELSE {"unread"}) :
         IF running
         THEN \* "Already connected"
              /\ lastConnect' = [arg |-> arg, env |-> env, failAt |-> 0,
                                 result |-> "refused"]
              /\ UNCHANGED <<lifeVars, sock, iocpHandle, transportVars, userVars>>
         ELSE IF ~AgentIdAvailable(arg, env)
         THEN \* "No agent id provided"
              /\ lastConnect' = [arg |-> arg, env |-> env, failAt |-> 0,
                                 result |-> "noAgent"]
              /\ UNCHANGED <<lifeVars, sock, iocpHandle, transportVars, userVars>>
         ELSE \E failAt \in 0 .. Len(SetupSteps) :
              IF failAt > 0
              THEN \* terminate (); join (); return false
                   /\ lastConnect' = [arg |-> arg, env |-> env, failAt |-> failAt,
                                      result |-> "failed"]
                   /\ SetTransport(JoinOp(TerminateOp(TransportState)))
                   /\ sock' = "invalid"
                   /\ iocpHandle' = FALSE
                   /\ ioPc' = IF ServiceThreadStarts(failAt) THEN "top" ELSE ioPc
                   /\ running' = FALSE
                   /\ UNCHANGED <<phase, userQuit, userVars>>
              ELSE /\ lastConnect' = [arg |-> arg, env |-> env, failAt |-> 0,
                                      result |-> "connected"]
                   /\ LET g == GetBuffer(TransportState)
                          r == RequestRead([g EXCEPT !.inBuffer = g.obj])
                      IN  SetTransport(SendInterfacePacket(r, ConnectionSettingsSize,
                                         [kind |-> ConnectionSettingsType,
                                          n |-> enqCount + 1]))
                   /\ sock' = "open"
                   /\ iocpHandle' = TRUE
                   /\ ioPc' = IF ServiceThreadStarts(failAt) THEN "top" ELSE ioPc
                   /\ running' = TRUE
                   /\ phase' = "running"
                   /\ enqCount' = enqCount + 1
                   /\ enqSizes' = Append(enqSizes, ConnectionSettingsSize)
                   /\ UNCHANGED <<userQuit, waiterPc>>
    /\ UNCHANGED <<streamVars, faultVars, poolVars, loopVars, predVars, ctxVars>>

\* the times a joined transport is connected again
MaxReconnects == 1

\* Connection::connect replaces every pool ("reset buffer pools"): the old
\* pools' free buffers go with them, referenced buffers live on
ResetPools(s) ==
    [s EXCEPT !.free = [sh \in Shards |-> <<>>],
              !.watermark = [sh \in Shards |-> 0],
              !.shardOf = [b \in BufIds |-> IF s.count[b] = 0 THEN 0 ELSE s.shardOf[b]],
              !.mem = [b \in BufIds |-> IF s.count[b] = 0
                                        THEN [j \in 0 .. BUFFER_SIZE - 1 |-> 0]
                                        ELSE s.mem[b]]]

\* a reference into a replaced pool is dropped: the last one destroys the
\* buffer together with its pool
RetireRef(s, b) ==
    IF b = 0 THEN s
    ELSE IF s.count[b] > 1 THEN [s EXCEPT !.count[b] = @ - 1]
    ELSE [s EXCEPT !.count[b] = 0, !.shardOf[b] = 0,
                   !.mem[b] = [j \in 0 .. BUFFER_SIZE - 1 |-> 0]]

\* Connection::connect on a transport that has been joined, all setup steps
\* succeeding: new pools, a new socket and completion port (nothing of the
\* old session's submissions or events reaches them), a new service thread,
\* inBuffer = getBuffer (), requestRead (); the members join () left alone
\* keep their values
Reconnect ==
    /\ phase = "joined"
    /\ ~running
    /\ connects < MaxReconnects
    /\ connects' = connects + 1
    /\ lastConnect' = [arg |-> "null", env |-> "unread", failAt |-> 0,
                       result |-> "reconnected"]
    /\ LET p == ResetPools([TransportState EXCEPT
                              !.writeInFlight = FALSE, !.submitted = <<>>,
                              !.outstanding = 0, !.wqEvents = 0,
                              !.readReq = -1, !.quitRequested = FALSE])
           g == GetBuffer(p)
           r == RetireRef(g, g.inBuffer)
       IN  SetTransport(RequestRead([r EXCEPT !.inBuffer = g.obj]))
    /\ wire' = <<>>
    /\ peerClosed' = FALSE
    /\ ioPc' = "top"
    /\ running' = TRUE
    /\ phase' = "running"
    /\ userQuit' = FALSE
    /\ sock' = "open"
    /\ iocpHandle' = TRUE
    /\ UNCHANGED <<sent, faultVars, poolVars, loopVars, predVars, userVars, ctxVars>>

\* a holder drops its Message (Message::~Message -> Ref::reset)
DropMessage ==
    /\ \E i \in 1 .. Len(held) :
         SetTransport(RefReset([TransportState EXCEPT
                                  !.held = SubSeq(held, 1, i - 1) \o
                                           SubSeq(held, i + 1, Len(held))],
                               held[i].buffer))
    /\ UNCHANGED <<lifeVars, streamVars, connVars, faultVars, poolVars, loopVars, predVars, userVars, ctxVars>>

\* payload sizes a user thread asks to send; the last one is oversize
EnqueueSizes == {0, 1, MaxPayloadLen + 1}

\* a user thread calls sendInterfacePacket
Enqueue ==
    /\ phase = "running"
    /\ enqCount < MaxEnqueues
    /\ \E size \in EnqueueSizes :
         /\ SetTransport(SendInterfacePacket(TransportState, size,
                                             [kind |-> 5, n |-> enqCount + 1]))
         /\ enqSizes' = Append(enqSizes, size)
    /\ enqCount' = enqCount + 1
    /\ UNCHANGED <<lifeVars, streamVars, connVars, faultVars, poolVars, loopVars, predVars, waiterPc, ctxVars>>

\* a thread calls waitForWriterIdle and takes the writer mutex
WaitCall ==
    /\ waiterPc = "none"
    /\ phase = "running"
    /\ waiterPc' = "waiting"
    /\ UNCHANGED <<lifeVars, streamVars, connVars, faultVars, poolVars, loopVars, predVars, transportVars, enqCount, enqSizes, ctxVars>>

\* waitForWriterIdle: while (!m_writerIdle) wait; the call returns
WaitReturn ==
    /\ waiterPc = "waiting"
    /\ writerIdle
    /\ waiterPc' = "returned"
    /\ UNCHANGED <<lifeVars, streamVars, connVars, faultVars, poolVars, loopVars, predVars, transportVars, enqCount, enqSizes, ctxVars>>

(***************************************************************************)
(* Router and bot contexts: BotManagerBase::handleMessage, BotContext      *)
(* The outbound side is reduced to outLog, the order in which              *)
(* sendInterfacePacket appends frames to the writer queue.                 *)
(***************************************************************************)

\* controllables one ControllableTeamInfo lists at most
MaxControllables == 2

\* control-plane messages the server sends in one session
MaxControl == 6

\* bots.front () runs on the reader thread
Primary == 1

\* positions in the deque bots: spawnBots creates at most one context per
\* controllable
Contexts == 1 .. MaxControllables

Workers == Contexts \ {Primary}

\* the contexts that exist
Alive == 1 .. Len(bots)

\* BotContext::indices of every context
Indices == [c \in Contexts |-> IF c \in Alive THEN bots[c].indices ELSE {}]

\* the indices of a context, in iteration order
RECURSIVE SetToSeq(_)
SetToSeq(S) ==
    IF S = {} THEN <<>>
    ELSE LET x == CHOOSE y \in S : \A z \in S : y <= z
         IN  <<x>> \o SetToSeq(S \ {x})

\* controllableTeamInfo->team ()
BotTeam == 0

\* highest tick the server sends
MaxTick == 2

\* MatchComms the server sends
MaxComms == 2

\* frames one read delivers at most
MaxBatch == 2

\* player counts of the GamePackets the server sends
PlayerCounts == {1, 2}

\* the three control-plane messages: ControllableTeamInfo, FieldInfo,
\* MatchConfiguration
NumControl == 3

\* an empty Message
NoMessage == [tick |-> 0, players |-> 0]

NoComm == [index |-> 0 - 1, team |-> 0, teamOnly |-> FALSE]

\* MatchComms the server relays: senders 0 and 1 play for team 0, sender 2
\* for team 1
CommVariants ==
    {[index |-> 0, team |-> 0, teamOnly |-> TRUE],
     [index |-> 1, team |-> 0, teamOnly |-> FALSE],
     [index |-> 2, team |-> 1, teamOnly |-> TRUE],
     [index |-> 2, team |-> 1, teamOnly |-> FALSE]}

\* a notify_one that wakes nobody
NotifyLost(p, c) == p

\* std::condition_variable::notify_one on the context's m_cv
Notify(p, c) == IF p[c] = "wait" THEN [p EXCEPT ![c] = "woken"] ELSE p

RECURSIVE NotifyAll(_, _)
NotifyAll(p, cs) ==
    IF cs = {} THEN p
    ELSE LET c == CHOOSE x \in cs : TRUE
         IN  NotifyAll(Notify(p, c), cs \ {c})

\* a serviceLoop without its lock_.unlock (): m_mutex stays with the thread
\* for the whole pass
MutexHeldThroughPass(c) ==
    pc[c] \in {"loop", "prewait", "matchComm", "update", "getOutput", "drain", "relock"}

\* the context's m_mutex is held by its worker
MutexHeld(c) == pc[c] \in {"loop", "prewait"}

\* the mutexes the thread that runs context c's service loop holds at its
\* position: m_mutex from the std::unique_lock to lock_.unlock () and again
\* from lock_.lock (); writerMutex and the pool mutexes only inside
\* sendInterfacePacket and getBuffer, which return before the next callback
LocksHeld(c) == IF MutexHeld(c) THEN {"m_mutex"} ELSE {}

MutexesFree == \A c \in Workers : ~MutexHeld(c)

\* setGamePacket that keeps a packet which is already pending
StoreGamePacketKeepOld(old, new) == IF old # NoMessage THEN old ELSE new

\* BotContext::setGamePacket: m_gamePacketMessage = std::move (gamePacket_)
StoreGamePacket(old, new) == new

\* addMatchComm without its two filters
AcceptsAnyMatchComm(c, comm) == TRUE

\* BotContext::addMatchComm: not to self, team-only not to the other team
AcceptsMatchComm(c, comm) ==
    /\ comm.index \notin bots[c].botIndices
    /\ ~(comm.teamOnly /\ comm.team # BotTeam)

\* serviceLoop that goes to the game packet before the collected comms
FirstStagePacketFirst(nComms, hasPacket) ==
    IF hasPacket THEN "update" ELSE IF nComms > 0 THEN "matchComm" ELSE "drain"

\* serviceLoop after the collect: match comms first, game packet next, then
\* the agent's queued outputs
FirstStage(nComms, hasPacket) ==
    IF nComms > 0 THEN "matchComm" ELSE IF hasPacket THEN "update" ELSE "drain"

Entry(cb, n, comm) == [cb |-> cb, n |-> n, comm |-> comm]

\* where the thread goes when serviceLoop returns: loopOnce returns to the
\* router; a worker leaves both while loops on m_quit, takes the mutex again
\* after a pass, or decides to wait
AfterLoop(c, didWork) ==
    IF c = Primary THEN "idle"
    ELSE IF botQuit[c] THEN "exited"
    ELSE IF didWork THEN "loop" ELSE "prewait"

\* a reader thread that does not wait for the first bot's loopOnce to return
PrimaryNotAwaited == TRUE

\* the reader thread is not inside the first bot's loopOnce
PrimaryIdle == pc[Primary] \in {"none", "idle"}

\* the server's stream: what may come next; the control-plane messages come
\* first
ServerMessages ==
    IF controlSeen < NumControl
    THEN {[kind |-> "Control", tick |-> 0, players |-> 0, comm |-> NoComm]}
    ELSE {[kind |-> "GamePacket", tick |-> nextTick, players |-> n, comm |-> NoComm] :
             n \in {k \in PlayerCounts : nextTick <= MaxTick}}
         \cup {[kind |-> "MatchComm", tick |-> 0, players |-> 0, comm |-> m] :
             m \in {v \in CommVariants : commsSent < MaxComms}}
         \cup {[kind |-> "DisconnectSignal", tick |-> 0, players |-> 0,
                comm |-> NoComm] : x \in {y \in {1} : ~disconnectSent}}

\* a read completion is dequeued: handleRead starts on the frames it holds
IoDeliver ==
    /\ ioPc = "blocked"
    /\ phase = "running"
    /\ ServerMessages # {}
    /\ ioPc' = "reading"
    /\ inRead' = 0
    /\ UNCHANGED <<phase, running, userQuit, streamVars, connVars, faultVars, poolVars, loopVars, predVars, transportVars, userVars,
                   nextTick, commsSent, disconnectSent, botVars,
                   histVars, matchVars, spawnVars>>

(***************************************************************************)
(* The handshake and BotManagerImpl::spawnBots / clearBots                 *)
(***************************************************************************)

ControlKinds == {"ControllableTeamInfo", "FieldInfo", "MatchConfiguration"}

\* the order in which the server of Spec sends its handshake
ControlOrder == <<"ControllableTeamInfo", "FieldInfo", "MatchConfiguration">>

\* an empty std::string
NoName == 0

\* matchConfiguration->player_configurations (): two custom bots of this
\* team, a custom bot of the other team, a human of this team
PlayerConfigurations ==
    << [player_id |-> 1, team |-> 0, customBot |-> TRUE, name |-> 1],
       [player_id |-> 2, team |-> 0, customBot |-> TRUE, name |-> 2],
       [player_id |-> 3, team |-> 1, customBot |-> TRUE, name |-> 3],
       [player_id |-> 4, team |-> 0, customBot |-> FALSE, name |-> 4] >>

\* identifiers a ControllableInfo may carry; the last one has no player
\* configuration
Identifiers == 1 .. (Len(PlayerConfigurations) + 1)

\* indices a ControllableInfo may carry
PlayerIndices == 0 .. (MaxControllables - 1)

\* the ControllableTeamInfo of the standard match
DefaultControllables ==
    << [identifier |-> 1, index |-> 0], [identifier |-> 2, index |-> 1] >>

\* an agent without loadout that queues no render message and no game state
QuietAgent == [loadout |-> FALSE, render |-> "none", gameState |-> FALSE]

\* a frame handed to sendInterfacePacket
Frame(kind, c, tick, index, gen) ==
    [kind |-> kind, ctx |-> c, tick |-> tick, index |-> index, gen |-> gen]

\* std::ranges::find over the player configurations, by player_id: the
\* position of the first match, 0 for std::end
FindPlayer(id) ==
    LET hits == {i \in 1 .. Len(PlayerConfigurations) :
                    PlayerConfigurations[i].player_id = id}
    IN  IF hits = {} THEN 0 ELSE CHOOSE i \in hits : \A j \in hits : i <= j

\* a team check that lets every player through
TeamMatchesAny(player) == TRUE

\* player->team () != team
TeamMatches(player) == player.team = BotTeam

\* the checks at the top of the loop body of spawnBots, in their order
Verdict(ctl, botIndices) ==
    LET p == FindPlayer(ctl.identifier)
    IN  IF p = 0 THEN "player not found"
        ELSE IF ~TeamMatches(PlayerConfigurations[p]) THEN "team mismatch"
        ELSE IF ctl.index \in botIndices THEN "duplicate bot index"
        ELSE IF ~PlayerConfigurations[p].customBot THEN "not a bot"
        ELSE "accepted"

\* botIndices after std::move (botIndices): the move constructor of
\* std::unordered_set takes the nodes and leaves the source empty
MovedFrom(S) == {}

\* the locals of spawnBots at its start
NoLocals == [k |-> 1, botIndices |-> {}, name |-> NoName]

\* one pass of the for loop over the controllables; st carries the locals,
\* bots, the factory calls and the frames sent
SpawnIteration(st, ctl) ==
    LET player == PlayerConfigurations[FindPlayer(ctl.identifier)]
        idx    == st.botIndices \cup {ctl.index}
    IN  IF Verdict(ctl, st.botIndices) # "accepted"
        THEN [st EXCEPT !.k = @ + 1]
        ELSE IF batchHivemind
        THEN \* defer bot creation
             [st EXCEPT !.k = @ + 1,
                        !.botIndices = idx,
                        !.name = IF @ # NoName THEN player.name ELSE @]
        ELSE [st EXCEPT
                !.k = @ + 1,
                !.spawnLog = Append(@, [indices |-> idx, team |-> BotTeam,
                                        name |-> player.name, gen |-> st.gen]),
                !.bots = Append(@, [indices |-> idx, botIndices |-> idx,
                                    gen |-> st.gen]),
                !.botIndices = MovedFrom(idx),
                !.outLog = IF agent.loadout
                           THEN Append(@, Frame("SetLoadout", 0, 0, ctl.index, st.gen))
                           ELSE @]

\* if (batchHivemind): one agent and one context for all accepted indices
SpawnHivemind(st) ==
    LET idx == SetToSeq(st.botIndices)
    IN  [st EXCEPT
           !.spawnLog = Append(@, [indices |-> st.botIndices, team |-> BotTeam,
                                   name |-> st.name, gen |-> st.gen]),
           !.outLog = IF agent.loadout
                      THEN @ \o [i \in 1 .. Len(idx) |->
                                   Frame("SetLoadout", 0, 0, idx[i], st.gen)]
                      ELSE @,
           !.bots = Append(@, [indices |-> st.botIndices,
                               botIndices |-> st.botIndices, gen |-> st.gen]),
           !.botIndices = MovedFrom(st.botIndices)]

RECURSIVE SpawnLoop(_)
SpawnLoop(st) ==
    IF st.k > Len(controllables) THEN st
    ELSE SpawnLoop(SpawnIteration(st, controllables[st.k]))

\* spawnBots from the for loop to the creation of the last context
SpawnAll(st) ==
    LET l == SpawnLoop(st) IN IF batchHivemind THEN SpawnHivemind(l) ELSE l

SpawnState ==
    [k |-> sp.k, botIndices |-> sp.botIndices, name |-> sp.name, bots |-> bots,
     spawnLog |-> spawnLog, outLog |-> outLog, gen |-> spawnCount]

SetSpawn(st) ==
    /\ sp' = [k |-> st.k, botIndices |-> st.botIndices, name |-> st.name]
    /\ bots' = st.bots
    /\ botsSpawned' = (st.bots # <<>>)
    /\ spawnLog' = st.spawnLog
    /\ outLog' = st.outLog

\* the context's thread has called initialize (): its ready future is set
Ready(c) == pc[c] \notin {"none", "start"}

\* spawnBots that does not wait for the contexts
AllInitializedNoWait == TRUE

\* for (auto &bot : bots) bot.waitInitialized ()
AllInitialized == \A c \in Alive : Ready(c)

\* the thread of a context whose join does not wait
ThreadExitedNoJoin(c) == TRUE

\* m_thread.join () can return
ThreadExited(c) == pc[c] = "exited"

\* a spawnBots that does not look at the cached messages
SpawnReadyAlways(cache) == TRUE

\* spawnBots goes on only if controllableTeamInfoMessage, fieldInfoMessage
\* and matchConfigurationMessage are all set
SpawnReady(cache) == cache = ControlKinds

\* handleMessage caches a control-plane message and calls spawnBots, which
\* returns at once unless all three are cached
HandleControl(kind) ==
    /\ cachedControl' = cachedControl \cup {kind}
    /\ controlCount' = [controlCount EXCEPT ![kind] = @ + 1]
    /\ IF SpawnReady(cachedControl \cup {kind})
       THEN ioPc' = "clearBots" /\ spawnCount' = spawnCount + 1
       ELSE UNCHANGED <<ioPc, spawnCount>>

\* handleMessage: ControllableTeamInfo, FieldInfo or MatchConfiguration
RouteControlKind(m) ==
    /\ m.kind \in ControlKinds
    /\ HandleControl(m.kind)
    /\ controlSeen' = controlSeen + 1
    /\ UNCHANGED <<nextTick, commsSent, disconnectSent, botsSpawned, pc, botQuit,
                   dtor, gamePacketMessage, matchCommsIn, matchCommsWork, gp,
                   histVars, matchVars, bots, sp, spawnLog, transportVars>>

\* clearBots: terminate () on every context but the first
ClearBots ==
    /\ ioPc = "clearBots"
    /\ botQuit' = [c \in Contexts |->
                     IF c \in Alive \ {Primary} THEN TRUE ELSE botQuit[c]]
    /\ pc' = NotifyAll(pc, Alive \ {Primary})
    /\ ioPc' = "destroy"
    /\ UNCHANGED <<phase, running, userQuit, streamVars, connVars, faultVars, poolVars, loopVars, predVars, transportVars, userVars,
                   serverVars, botsSpawned, controlSeen, dtor, gamePacketMessage,
                   matchCommsIn, matchCommsWork, gp, histVars, matchVars,
                   spawnVars>>

\* bots.clear () has destroyed every context; the for loop of spawnBots starts
BotsCleared ==
    /\ ioPc = "destroy"
    /\ \A c \in Alive \ {Primary} : dtor[c] = "done"
    /\ bots' = <<>>
    /\ botsSpawned' = FALSE
    /\ pc' = [c \in Contexts |-> IF pc[c] \in {"idle", "exited"} THEN "none" ELSE pc[c]]
    /\ botQuit' = [c \in Contexts |-> FALSE]
    /\ dtor' = [c \in Contexts |-> "none"]
    /\ gamePacketMessage' = [c \in Contexts |-> NoMessage]
    /\ matchCommsIn' = [c \in Contexts |-> <<>>]
    /\ matchCommsWork' = [c \in Contexts |-> <<>>]
    /\ setLog' = [c \in Contexts |-> <<>>]
    /\ updates' = [c \in Contexts |-> <<>>]
    /\ sp' = NoLocals
    /\ ioPc' = "spawnLoop"
    /\ ballPredictionMessage' = [c \in Contexts |-> 0]
    /\ bp' = [c \in Contexts |-> 0]
    /\ predLog' = [c \in Contexts |-> <<>>]
    /\ UNCHANGED <<phase, running, userQuit, streamVars, connVars, faultVars, poolVars, loopVars, predSent, transportVars, userVars,
                   serverVars, controlSeen, gp, passLog, collected, rejected,
                   outLog, matchVars, cachedControl, controlCount, spawnCount,
                   spawnLog>>

\* the body of the for loop over the controllables, once
SpawnStep ==
    /\ ioPc = "spawnLoop"
    /\ sp.k <= Len(controllables)
    /\ SetSpawn(SpawnIteration(SpawnState, controllables[sp.k]))
    /\ UNCHANGED <<lifeVars, streamVars, connVars, faultVars, poolVars, loopVars, predVars, transportVars, userVars, serverVars,
                   controlSeen, pc, botQuit, dtor, gamePacketMessage, matchCommsIn,
                   matchCommsWork, gp, passLog, setLog, collected, updates,
                   rejected, matchVars, cachedControl, controlCount, spawnCount>>

\* the for loop is over: the hivemind context is created if batchHivemind
SpawnFinish ==
    /\ ioPc = "spawnLoop"
    /\ sp.k > Len(controllables)
    /\ LET st == IF batchHivemind THEN SpawnHivemind(SpawnState) ELSE SpawnState
       IN  SetSpawn([st EXCEPT !.k = 1, !.botIndices = {}, !.name = NoName])
    /\ ioPc' = "startService"
    /\ UNCHANGED <<phase, running, userQuit, streamVars, connVars, faultVars, poolVars, loopVars, predVars, transportVars, userVars,
                   serverVars, controlSeen, pc, botQuit, dtor, gamePacketMessage,
                   matchCommsIn, matchCommsWork, gp, passLog, setLog, collected,
                   updates, rejected, matchVars, cachedControl, controlCount,
                   spawnCount>>

\* startService () on every context but the first
StartServices ==
    /\ ioPc = "startService"
    /\ pc' = [c \in Contexts |-> IF c \in Alive \ {Primary} THEN "start" ELSE pc[c]]
    /\ ioPc' = "initialize"
    /\ UNCHANGED <<phase, running, userQuit, streamVars, connVars, faultVars, poolVars, loopVars, predVars, transportVars, userVars,
                   serverVars, botsSpawned, controlSeen, botQuit, dtor,
                   gamePacketMessage, matchCommsIn, matchCommsWork, gp, histVars,
                   matchVars, spawnVars>>

\* std::begin (bots)->initialize () on the reader thread
InitializePrimary ==
    /\ ioPc = "initialize"
    /\ pc' = IF bots # <<>> THEN [pc EXCEPT ![Primary] = "idle"] ELSE pc
    /\ ioPc' = "waitInitialized"
    /\ UNCHANGED <<phase, running, userQuit, streamVars, connVars, faultVars, poolVars, loopVars, predVars, transportVars, userVars,
                   serverVars, botsSpawned, controlSeen, botQuit, dtor,
                   gamePacketMessage, matchCommsIn, matchCommsWork, gp, histVars,
                   matchVars, spawnVars>>

\* handleMessage: DisconnectSignal
RouteDisconnect(m) ==
    /\ m.kind = "DisconnectSignal"
    /\ disconnectSent' = TRUE
    /\ SetTransport(TerminateOp(TransportState))
    /\ UNCHANGED <<nextTick, commsSent, botVars, histVars, ioPc, matchVars,
                   spawnVars>>

\* handleMessage: ControllableTeamInfo, FieldInfo, MatchConfiguration; the
\* third of them makes spawnBots create the contexts and start the workers
RouteControl(m) ==
    /\ m.kind = "Control"
    /\ controlSeen' = controlSeen + 1
    /\ cachedControl' = cachedControl \cup {ControlOrder[controlSeen + 1]}
    /\ controlCount' = [controlCount EXCEPT ![ControlOrder[controlSeen + 1]] = @ + 1]
    /\ IF controlSeen + 1 = NumControl
       THEN LET r == SpawnAll([k |-> 1, botIndices |-> {}, name |-> NoName,
                               bots |-> <<>>, spawnLog |-> spawnLog,
                               outLog |-> outLog, gen |-> spawnCount + 1])
            IN  /\ SetSpawn([r EXCEPT !.k = 1, !.botIndices = {}, !.name = NoName])
                /\ spawnCount' = spawnCount + 1
                /\ pc' = [c \in Contexts |->
                            IF c > Len(r.bots) THEN pc[c]
                            ELSE IF c = Primary THEN "idle" ELSE "start"]
                /\ ioPc' = "waitInitialized"
       ELSE UNCHANGED <<botsSpawned, pc, ioPc, bots, sp, spawnCount, spawnLog,
                        outLog>>
    /\ UNCHANGED <<nextTick, commsSent, disconnectSent, botQuit, dtor,
                   gamePacketMessage, matchCommsIn, matchCommsWork, gp, passLog,
                   setLog, collected, updates, rejected, transportVars, matchVars>>

\* handleMessage: GamePacket; the workers are notified, the first bot runs
\* loopOnce on this thread
RouteGamePacket(m) ==
    /\ m.kind = "GamePacket"
    /\ nextTick' = nextTick + 1
    /\ IF botsSpawned
       THEN /\ MutexesFree
            /\ gamePacketMessage' =
                   [c \in Contexts |->
                      IF c \in Alive
                      THEN StoreGamePacket(gamePacketMessage[c],
                                           [tick |-> m.tick, players |-> m.players])
                      ELSE gamePacketMessage[c]]
            /\ setLog' = [c \in Contexts |->
                            IF c \in Alive THEN Append(setLog[c], m.tick)
                            ELSE setLog[c]]
            /\ pc' = [NotifyAll(pc, Alive \ {Primary}) EXCEPT ![Primary] = "loop"]
       ELSE UNCHANGED <<gamePacketMessage, setLog, pc>>
    /\ UNCHANGED <<commsSent, disconnectSent, botsSpawned, controlSeen,
                   botQuit, dtor, matchCommsIn,
                   matchCommsWork, gp, passLog, collected, updates, rejected,
                   outLog, transportVars, ioPc, matchVars, spawnVars>>

\* handleMessage: MatchComm; addMatchComm on every worker, loopOnce on the
\* first bot
RouteMatchComm(m) ==
    /\ m.kind = "MatchComm"
    /\ commsSent' = commsSent + 1
    /\ IF botsSpawned
       THEN LET takers == {c \in Alive \ {Primary} : AcceptsMatchComm(c, m.comm)}
            IN  /\ \A c \in takers : ~MutexHeld(c)
                /\ matchCommsIn' = [c \in Contexts |->
                                      IF c \in takers
                                      THEN Append(matchCommsIn[c], m.comm)
                                      ELSE matchCommsIn[c]]
                /\ rejected' = rejected \cup
                                 {<<c, m.comm>> : c \in (Alive \ {Primary}) \ takers}
                /\ pc' = [NotifyAll(pc, takers) EXCEPT ![Primary] = "loop"]
       ELSE UNCHANGED <<matchCommsIn, rejected, pc>>
    /\ UNCHANGED <<nextTick, disconnectSent, botsSpawned, controlSeen,
                   botQuit, dtor, gamePacketMessage, matchCommsWork, gp, passLog,
                   setLog, collected, updates, outLog, transportVars, ioPc,
                   matchVars, spawnVars>>

\* the while loop of handleRead passes the next frame of this read to
\* handleMessage
Route ==
    /\ ioPc = "reading"
    /\ PrimaryIdle
    /\ inRead < MaxBatch
    /\ inRead' = inRead + 1
    /\ \E m \in ServerMessages :
         \/ RouteDisconnect(m)
         \/ RouteControl(m)
         \/ RouteGamePacket(m)
         \/ RouteMatchComm(m)
    /\ UNCHANGED <<phase, running, userQuit, streamVars, connVars, faultVars, poolVars, loopVars, predVars, userVars>>

\* spawnBots: every context has run initialize; InitComplete is sent
SpawnComplete ==
    /\ ioPc = "waitInitialized"
    /\ AllInitialized
    /\ outLog' = Append(outLog, Frame("InitComplete", 0, 0, 0 - 1, spawnCount))
    /\ ioPc' = "reading"
    /\ UNCHANGED <<phase, running, userQuit, streamVars, connVars, faultVars, poolVars, loopVars, predVars, transportVars, userVars,
                   serverVars, botVars, passLog, setLog, collected, updates,
                   rejected, matchVars, spawnVars>>

\* handleRead has passed on every frame of this read: requestRead
FinishRead ==
    /\ ioPc = "reading"
    /\ PrimaryIdle
    /\ inRead >= 1
    /\ ioPc' = "top"
    /\ UNCHANGED <<phase, running, userQuit, streamVars, connVars, faultVars, poolVars, loopVars, predVars, transportVars, userVars,
                   ctxVars>>

\* BotContext::service: initialize ()
WorkerStart(c) ==
    /\ pc[c] = "start"
    /\ pc' = [pc EXCEPT ![c] = "outer"]
    /\ UNCHANGED <<lifeVars, streamVars, connVars, faultVars, poolVars, loopVars, predVars, transportVars, userVars, serverVars,
                   matchVars, spawnVars,
                   botsSpawned, controlSeen, botQuit, dtor, gamePacketMessage,
                   matchCommsIn, matchCommsWork, gp,
                   histVars>>

\* BotContext::service: while (!m_quit) { lock
WorkerOuter(c) ==
    /\ pc[c] = "outer"
    /\ pc' = [pc EXCEPT ![c] = IF botQuit[c] THEN "exited" ELSE "loop"]
    /\ UNCHANGED <<lifeVars, streamVars, connVars, faultVars, poolVars, loopVars, predVars, transportVars, userVars, serverVars,
                   matchVars, spawnVars,
                   botsSpawned, controlSeen, botQuit, dtor, gamePacketMessage,
                   matchCommsIn, matchCommsWork, gp,
                   histVars>>

\* serviceLoop: auto const ballPredictionMessage = m_ballPredictionMessage
CollectBallPrediction(c) == ballPredictionMessage[c]

\* serviceLoop up to lock_.unlock (): no work, or collect it
ServiceLoopEnter(c) ==
    /\ pc[c] = "loop"
    /\ IF matchCommsIn[c] = <<>> /\ gamePacketMessage[c] = NoMessage
       THEN /\ pc' = [pc EXCEPT ![c] = AfterLoop(c, FALSE)]
            /\ UNCHANGED <<gamePacketMessage, matchCommsIn, matchCommsWork, gp, bp,
                           histVars>>
       ELSE /\ matchCommsWork' = [matchCommsWork EXCEPT ![c] = matchCommsIn[c]]
            /\ matchCommsIn' = [matchCommsIn EXCEPT ![c] = matchCommsWork[c]]
            /\ gp' = [gp EXCEPT ![c] = gamePacketMessage[c]]
            /\ bp' = [bp EXCEPT ![c] = CollectBallPrediction(c)]
            /\ gamePacketMessage' = [gamePacketMessage EXCEPT ![c] = NoMessage]
            /\ collected' = [collected EXCEPT ![c] =
                               [ticks |-> setLog[c], comms |-> matchCommsIn[c]]]
            /\ setLog' = [setLog EXCEPT ![c] = <<>>]
            /\ passLog' = [passLog EXCEPT ![c] = <<>>]
            /\ pc' = [pc EXCEPT ![c] = FirstStage(Len(matchCommsIn[c]),
                                                  gamePacketMessage[c] # NoMessage)]
            /\ UNCHANGED <<updates, rejected, outLog>>
    /\ UNCHANGED <<lifeVars, streamVars, connVars, faultVars, poolVars, loopVars, predSent, ballPredictionMessage, predLog,
                   transportVars, userVars, serverVars,
                   matchVars, spawnVars,
                   botsSpawned, controlSeen, botQuit, dtor>>

\* serviceLoop: m_bot->matchComm for the next collected comm
MatchCommCallback(c) ==
    /\ pc[c] = "matchComm"
    /\ passLog' = [passLog EXCEPT ![c] =
                     Append(@, Entry("matchComm", 0, Head(matchCommsWork[c])))]
    /\ matchCommsWork' = [matchCommsWork EXCEPT ![c] = Tail(@)]
    /\ pc' = [pc EXCEPT ![c] =
                IF Len(matchCommsWork[c]) > 1 THEN "matchComm"
                ELSE IF gp[c] # NoMessage THEN "update" ELSE "drain"]
    /\ UNCHANGED <<lifeVars, streamVars, connVars, faultVars, poolVars, loopVars, predVars, transportVars, userVars, serverVars,
                   matchVars, spawnVars,
                   botsSpawned, controlSeen, botQuit, dtor, gamePacketMessage,
                   matchCommsIn, gp, setLog, collected,
                   updates, rejected, outLog>>

\* serviceLoop: m_bot->update
UpdateCallback(c) ==
    /\ pc[c] = "update"
    /\ passLog' = [passLog EXCEPT ![c] = Append(@, Entry("update", gp[c].tick, NoComm))]
    /\ updates' = [updates EXCEPT ![c] = Append(@, gp[c].tick)]
    /\ predLog' = [predLog EXCEPT ![c] = Append(@, [tick |-> gp[c].tick, pred |-> bp[c]])]
    /\ pc' = [pc EXCEPT ![c] = "getOutput"]
    /\ UNCHANGED <<lifeVars, streamVars, connVars, faultVars, poolVars, loopVars, predSent, ballPredictionMessage, bp,
                   transportVars, userVars, serverVars,
                   matchVars, spawnVars,
                   botsSpawned, controlSeen, botQuit, dtor, gamePacketMessage,
                   matchCommsIn, matchCommsWork, gp,
                   setLog, collected, rejected, outLog>>

\* a check that finds a player for every index
HasPlayerAlways(packet, index) == TRUE

\* gamePacket->players ()->size () <= index does not hold
HasPlayer(packet, index) == ~(packet.players <= index)

\* the for loop over indices: getOutput and sendInterfacePacket per index
\* that the game packet has a player for
RECURSIVE OutputLoop(_, _, _, _)
OutputLoop(c, idx, log, out) ==
    IF idx = <<>> THEN [log |-> log, out |-> out]
    ELSE IF ~HasPlayer(gp[c], Head(idx))
         THEN OutputLoop(c, Tail(idx), log, out)
         ELSE OutputLoop(c, Tail(idx),
                         Append(log, Entry("getOutput", Head(idx), NoComm)),
                         QueueInsert(out, Frame("PlayerInput", c, gp[c].tick,
                                                Head(idx), bots[c].gen)))

GetOutputCallbacks(c) ==
    /\ pc[c] = "getOutput"
    /\ LET r == OutputLoop(c, SetToSeq(Indices[c]), passLog[c], outLog)
       IN  /\ passLog' = [passLog EXCEPT ![c] = r.log]
           /\ outLog' = r.out
    /\ pc' = [pc EXCEPT ![c] = "drain"]
    /\ UNCHANGED <<lifeVars, streamVars, connVars, faultVars, poolVars, loopVars, predVars, transportVars, userVars, serverVars,
                   matchVars, spawnVars,
                   botsSpawned, controlSeen, botQuit, dtor, gamePacketMessage,
                   matchCommsIn, matchCommsWork, gp,
                   setLog, collected, updates, rejected>>

\* what getRenderMessages returned: 0 nothing, 1 a group with messages,
\* 2 an empty group
RenderCode(r) == CASE r = "none" -> 0 [] r = "group" -> 1 [] r = "remove" -> 2

\* a rendering gate that is always open
RenderingAllowedAlways == TRUE

\* m_matchConfiguration->enable_rendering () != DebugRendering::AlwaysOff
RenderingAllowed == enableRendering

\* a state-setting gate that is always open
StateSettingAllowedAlways == TRUE

\* m_matchConfiguration->enable_state_setting ()
StateSettingAllowed == enableStateSetting

\* the frames the third stage of serviceLoop sends for context c
DrainFrames(c) ==
    (IF agent.render # "none" /\ RenderingAllowed
     THEN << Frame(IF agent.render = "remove" THEN "RemoveRenderGroup"
                   ELSE "RenderGroup", c, gp[c].tick, 0, bots[c].gen) >>
     ELSE <<>>)
    \o (IF agent.gameState /\ StateSettingAllowed
        THEN << Frame("DesiredGameState", c, gp[c].tick, 0, bots[c].gen) >>
        ELSE <<>>)

\* serviceLoop: getMatchComms (the agent queues none), getRenderMessages,
\* getDesiredGameState
DrainCallbacks(c) ==
    /\ pc[c] = "drain"
    /\ passLog' = [passLog EXCEPT ![c] =
                     @ \o << Entry("getMatchComms", 0, NoComm),
                             Entry("getRenderMessages", RenderCode(agent.render),
                                   NoComm),
                             Entry("getDesiredGameState",
                                   IF agent.gameState THEN 1 ELSE 0, NoComm) >>]
    /\ outLog' = outLog \o DrainFrames(c)
    /\ pc' = [pc EXCEPT ![c] = "relock"]
    /\ UNCHANGED <<lifeVars, streamVars, connVars, faultVars, poolVars, loopVars, predVars, transportVars, userVars, serverVars,
                   matchVars, spawnVars,
                   botsSpawned, controlSeen, botQuit, dtor, gamePacketMessage,
                   matchCommsIn, matchCommsWork, gp,
                   setLog, collected, updates, rejected>>

\* serviceLoop: lock_.lock (); return true
ServiceLoopReturn(c) ==
    /\ pc[c] = "relock"
    /\ pc' = [pc EXCEPT ![c] = AfterLoop(c, TRUE)]
    /\ gp' = [gp EXCEPT ![c] = NoMessage]
    /\ passLog' = [passLog EXCEPT ![c] = <<>>]
    /\ collected' = [collected EXCEPT ![c] = [ticks |-> <<>>, comms |-> <<>>]]
    /\ UNCHANGED <<lifeVars, streamVars, connVars, faultVars, poolVars, loopVars, predVars, transportVars, userVars, serverVars,
                   matchVars, spawnVars,
                   botsSpawned, controlSeen, botQuit, dtor, gamePacketMessage,
                   matchCommsIn, matchCommsWork, setLog, updates, rejected,
                   outLog>>

\* BotContext::service: m_cv.wait (lock) releases the mutex and blocks
WorkerWait(c) ==
    /\ pc[c] = "prewait"
    /\ pc' = [pc EXCEPT ![c] = "wait"]
    /\ UNCHANGED <<lifeVars, streamVars, connVars, faultVars, poolVars, loopVars, predVars, transportVars, userVars, serverVars,
                   matchVars, spawnVars,
                   botsSpawned, controlSeen, botQuit, dtor, gamePacketMessage,
                   matchCommsIn, matchCommsWork, gp,
                   histVars>>

\* m_cv.wait returns with the mutex held
WorkerWake(c) ==
    /\ pc[c] = "woken"
    /\ pc' = [pc EXCEPT ![c] = "loop"]
    /\ UNCHANGED <<lifeVars, streamVars, connVars, faultVars, poolVars, loopVars, predVars, transportVars, userVars, serverVars,
                   matchVars, spawnVars,
                   botsSpawned, controlSeen, botQuit, dtor, gamePacketMessage,
                   matchCommsIn, matchCommsWork, gp,
                   histVars>>

\* a condition variable may wake without a notification
SpuriousWake(c) ==
    /\ pc[c] = "wait"
    /\ dtor[c] = "none"
    /\ pc' = [pc EXCEPT ![c] = "woken"]
    /\ UNCHANGED <<lifeVars, streamVars, connVars, faultVars, poolVars, loopVars, predVars, transportVars, userVars, serverVars,
                   matchVars, spawnVars,
                   botsSpawned, controlSeen, botQuit, dtor, gamePacketMessage,
                   matchCommsIn, matchCommsWork, gp,
                   histVars>>

\* BotContext::~BotContext: terminate (), then m_thread.join ()
ContextDestroy(c) ==
    /\ c \in Alive
    /\ \/ phase = "joined"
       \/ ioPc = "destroy" /\ \A d \in Workers : d < c => dtor[d] = "done"
    /\ dtor[c] = "none"
    /\ botQuit' = [botQuit EXCEPT ![c] = TRUE]
    /\ pc' = Notify(pc, c)
    /\ dtor' = [dtor EXCEPT ![c] = "joining"]
    /\ UNCHANGED <<lifeVars, streamVars, connVars, faultVars, poolVars, loopVars, predVars, transportVars, userVars, serverVars,
                   matchVars, spawnVars,
                   botsSpawned, controlSeen, gamePacketMessage,
                   matchCommsIn, matchCommsWork, gp,
                   histVars>>

\* m_thread.join () returns
ContextJoined(c) ==
    /\ dtor[c] = "joining"
    /\ ThreadExited(c)
    /\ dtor' = [dtor EXCEPT ![c] = "done"]
    /\ UNCHANGED <<lifeVars, streamVars, connVars, faultVars, poolVars, loopVars, predVars, transportVars, userVars, serverVars,
                   matchVars, spawnVars,
                   botsSpawned, controlSeen, pc, botQuit, gamePacketMessage,
                   matchCommsIn, matchCommsWork, gp,
                   histVars>>

\* the state of the router and the contexts after construction
InitContexts ==
    /\ botsSpawned = FALSE
    /\ controlSeen = 0
    /\ inRead = 0
    /\ nextTick = 1
    /\ commsSent = 0
    /\ disconnectSent = FALSE
    /\ pc = [c \in Contexts |-> "none"]
    /\ botQuit = [c \in Contexts |-> FALSE]
    /\ dtor = [c \in Contexts |-> "none"]
    /\ gamePacketMessage = [c \in Contexts |-> NoMessage]
    /\ matchCommsIn = [c \in Contexts |-> <<>>]
    /\ matchCommsWork = [c \in Contexts |-> <<>>]
    /\ gp = [c \in Contexts |-> NoMessage]
    /\ passLog = [c \in Contexts |-> <<>>]
    /\ setLog = [c \in Contexts |-> <<>>]
    /\ collected = [c \in Contexts |-> [ticks |-> <<>>, comms |-> <<>>]]
    /\ updates = [c \in Contexts |-> <<>>]
    /\ rejected = {}
    /\ outLog = <<>>
    /\ cachedControl = {}
    /\ controlCount = [k \in ControlKinds |-> 0]
    /\ bots = <<>>
    /\ sp = NoLocals
    /\ spawnCount = 0
    /\ spawnLog = <<>>
    /\ predSent = <<>>
    /\ ballPredictionMessage = [c \in Contexts |-> 0]
    /\ bp = [c \in Contexts |-> 0]
    /\ predLog = [c \in Contexts |-> <<>>]
    /\ wakeups = 0
    /\ loopbacks = 0
    /\ loopCalls = {}
    /\ tpc = [t \in PoolThreads |-> "idle"]
    /\ tobj = [t \in PoolThreads |-> 0]
    /\ handles = [t \in PoolThreads |-> [b \in BufIds |-> 0]]

\* the standard match: two controllables, default mode, rendering and state
\* setting disabled, quiet agents
InitMatch ==
    /\ batchHivemind = FALSE
    /\ controllables = DefaultControllables
    /\ enableRendering = FALSE
    /\ enableStateSetting = FALSE
    /\ agent = QuietAgent

(***************************************************************************)
(* Initial states and specifications                                       *)
(***************************************************************************)

\* payload lengths the server uses: empty, one byte, the largest
PayloadLens == {0, 1, MaxPayloadLen}

FrameSeqs == UNION {[1 .. n -> PayloadLens] : n \in 1 .. MaxFrames}

\* the state after construction of the transport
InitTransport ==
    /\ phase = "constructed"
    /\ peerClosed = FALSE
    /\ ioPc = "none"
    /\ quit = FALSE
    /\ running = FALSE
    /\ userQuit = FALSE
    /\ readReq = -1
    /\ inBuffer = 0
    /\ inStartOffset = 0
    /\ inEndOffset = 0
    /\ mem = [b \in BufIds |-> [j \in 0 .. BUFFER_SIZE - 1 |-> 0]]
    /\ count = [b \in BufIds |-> 0]
    /\ shardOf = [b \in BufIds |-> 0]
    /\ free = [sh \in Shards |-> <<>>]
    /\ watermark = [sh \in Shards |-> 0]
    /\ bufferPoolIndex = 0
    /\ held = <<>>
    /\ handled = <<>>
    /\ lastRead = <<>>
    /\ outputQueue = <<>>
    /\ iov = <<>>
    /\ outStartOffset = 0
    /\ writerIdle = FALSE
    /\ writeInFlight = FALSE
    /\ wqEvents = 0
    /\ submitted = <<>>
    /\ outstanding = 0
    /\ sockBytes = <<>>
    /\ quitRequested = FALSE
    /\ enqCount = 0
    /\ enqSizes = <<>>
    /\ waiterPc = "none"
    /\ sock = "zero"
    /\ iocpHandle = FALSE
    /\ connects = 0
    /\ invalidLog = <<>>
    /\ lastConnect = [arg |-> "null", env |-> "unset", failAt |-> 0, result |-> "none"]
    /\ InitContexts

\* the server is about to send some frames
InitRead ==
    /\ InitTransport
    /\ InitMatch
    /\ \E lens \in FrameSeqs :
         /\ sent = [i \in 1 .. Len(lens) |->
                      [type |-> TypeOf(i), payload |-> PayloadOf(i, lens[i])]]
         /\ wire = Concat([i \in 1 .. Len(lens) |->
                             BuildMessage(TypeOf(i), PayloadOf(i, lens[i]))])

NextRead ==
    \/ Connect
    \/ IoTop
    \/ IoRead
    \/ IoQuit
    \/ Terminate
    \/ PeerClose
    \/ Join
    \/ DropMessage

SpecRead == InitRead /\ [][NextRead]_vars

\* the reader with a connection that may fail at any read
NextFail ==
    \/ Connect
    \/ IoTop
    \/ IoRead
    \/ IoFail
    \/ PeerClose

SpecFail == InitRead /\ [][NextFail]_vars

\* the server sends nothing; user threads enqueue frames
InitWrite ==
    /\ InitTransport
    /\ InitMatch
    /\ sent = <<>>
    /\ wire = <<>>

NextWrite ==
    \/ Connect
    \/ IoTop
    \/ IoWrite
    \/ IoWriteQueue
    \/ IoQuit
    \/ Terminate
    \/ Join
    \/ Enqueue
    \/ WaitCall
    \/ WaitReturn

SpecWrite == InitWrite /\ [][NextWrite]_vars

\* a bot manager connecting, with setup steps that may fail, and the frames
\* it and its user threads send afterwards
NextConnect ==
    \/ BotConnect
    \/ IoTop
    \/ IoWrite
    \/ IoWriteQueue
    \/ Enqueue

SpecConnect == InitWrite /\ [][NextConnect]_vars

\* Refs thread t holds
RECURSIVE Holding(_, _)
Holding(t, bs) ==
    IF bs = {} THEN 0
    ELSE LET b == CHOOSE x \in bs : TRUE
         IN  handles[t][b] + Holding(t, bs \ {b})

\* Pool::getObject inside its scoped_lock: the back of m_pool, or a new
\* object if m_pool is empty
PoolTake(t) ==
    /\ tpc[t] = "idle"
    /\ Holding(t, BufIds) < MaxHandles
    /\ \E sh \in Shards :
         IF free[sh] # <<>>
         THEN /\ tobj' = [tobj EXCEPT ![t] = free[sh][Len(free[sh])]]
              /\ free' = [free EXCEPT ![sh] = SubSeq(@, 1, Len(@) - 1)]
              /\ UNCHANGED shardOf
         ELSE /\ Cardinality({b \in BufIds : shardOf[b] # 0}) < MaxPooled
              /\ LET b == FreshBuffer([shardOf |-> shardOf])
                 IN  /\ tobj' = [tobj EXCEPT ![t] = b]
                     /\ shardOf' = [shardOf EXCEPT ![b] = sh]
              /\ UNCHANGED free
    /\ tpc' = [tpc EXCEPT ![t] = "taken"]
    /\ UNCHANGED <<lifeVars, streamVars, connVars, faultVars, predVars, loopVars, handles,
                   userVars, ctxVars, quit, readReq, inBuffer, inStartOffset,
                   inEndOffset, mem, count, watermark, bufferPoolIndex, held,
                   handled, lastRead, outputQueue, iov, outStartOffset, writerIdle,
                   writeInFlight, wqEvents, quitRequested, submitted, outstanding,
                   sockBytes>>

\* Pool::getObject behind its lock: object->count.fetch_add (1), return the Ref
PoolCount(t) ==
    /\ tpc[t] = "taken"
    /\ count' = [count EXCEPT ![tobj[t]] = @ + 1]
    /\ handles' = [handles EXCEPT ![t][tobj[t]] = @ + 1]
    /\ tobj' = [tobj EXCEPT ![t] = 0]
    /\ tpc' = [tpc EXCEPT ![t] = "idle"]
    /\ UNCHANGED <<lifeVars, streamVars, connVars, faultVars, predVars, loopVars,
                   userVars, ctxVars, quit, readReq, inBuffer, inStartOffset,
                   inEndOffset, mem, shardOf, free, watermark, bufferPoolIndex, held,
                   handled, lastRead, outputQueue, iov, outStartOffset, writerIdle,
                   writeInFlight, wqEvents, quitRequested, submitted, outstanding,
                   sockBytes>>

\* Ref::operator= (Ref const &) into an empty Ref that thread u owns
RefCopyTo(t, u) ==
    /\ tpc[t] = "idle"
    /\ Holding(u, BufIds) < MaxHandles
    /\ \E b \in BufIds :
         /\ handles[t][b] > 0
         /\ count' = RefCopy([count |-> count], b).count
         /\ handles' = [handles EXCEPT ![u][b] = @ + 1]
    /\ UNCHANGED <<lifeVars, streamVars, connVars, faultVars, predVars, loopVars, tpc, tobj,
                   userVars, ctxVars, quit, readReq, inBuffer, inStartOffset,
                   inEndOffset, mem, shardOf, free, watermark, bufferPoolIndex, held,
                   handled, lastRead, outputQueue, iov, outStartOffset, writerIdle,
                   writeInFlight, wqEvents, quitRequested, submitted, outstanding,
                   sockBytes>>

\* Ref::operator= (Ref &&) into an empty Ref that thread u owns: "refcount
\* unchanged"
RefMoveTo(t, u) ==
    /\ tpc[t] = "idle"
    /\ t # u
    /\ Holding(u, BufIds) < MaxHandles
    /\ \E b \in BufIds :
         /\ handles[t][b] > 0
         /\ handles' = [handles EXCEPT ![t][b] = @ - 1, ![u][b] = @ + 1]
    /\ UNCHANGED <<lifeVars, streamVars, connVars, faultVars, predVars, loopVars, tpc, tobj,
                   transportVars, userVars, ctxVars>>

\* Ref::reset -> Pool::putObject up to its lock: count.fetch_sub (1)
PoolRelease(t) ==
    /\ tpc[t] = "idle"
    /\ \E b \in BufIds :
         /\ handles[t][b] > 0
         /\ handles' = [handles EXCEPT ![t][b] = @ - 1]
         /\ count' = [count EXCEPT ![b] = @ - 1]
         /\ IF LastReference(count[b])
            THEN /\ tpc' = [tpc EXCEPT ![t] = "recycle"]
                 /\ tobj' = [tobj EXCEPT ![t] = b]
            ELSE UNCHANGED <<tpc, tobj>>
    /\ UNCHANGED <<lifeVars, streamVars, connVars, faultVars, predVars, loopVars,
                   userVars, ctxVars, quit, readReq, inBuffer, inStartOffset,
                   inEndOffset, mem, shardOf, free, watermark, bufferPoolIndex, held,
                   handled, lastRead, outputQueue, iov, outStartOffset, writerIdle,
                   writeInFlight, wqEvents, quitRequested, submitted, outstanding,
                   sockBytes>>

\* Pool::putObject inside its scoped_lock: m_pool.emplace_back, m_watermark
PoolRecycle(t) ==
    /\ tpc[t] = "recycle"
    /\ LET sh == shardOf[tobj[t]]
       IN  /\ free' = [free EXCEPT ![sh] = Append(@, tobj[t])]
           /\ watermark' = [watermark EXCEPT ![sh] = Max(@, Len(free[sh]) + 1)]
    /\ tobj' = [tobj EXCEPT ![t] = 0]
    /\ tpc' = [tpc EXCEPT ![t] = "idle"]
    /\ UNCHANGED <<lifeVars, streamVars, connVars, faultVars, predVars, loopVars, handles,
                   userVars, ctxVars, quit, readReq, inBuffer, inStartOffset,
                   inEndOffset, mem, count, shardOf, bufferPoolIndex, held,
                   handled, lastRead, outputQueue, iov, outStartOffset, writerIdle,
                   writeInFlight, wqEvents, quitRequested, submitted, outstanding,
                   sockBytes>>

\* threads that take objects from the pools, copy and move their Refs among
\* each other and drop them, every pool operation split where it leaves or
\* takes the pool mutex
NextPool ==
    \/ \E t \in PoolThreads : PoolTake(t)
    \/ \E t \in PoolThreads : PoolCount(t)
    \/ \E t, u \in PoolThreads : RefCopyTo(t, u)
    \/ \E t, u \in PoolThreads : RefMoveTo(t, u)
    \/ \E t \in PoolThreads : PoolRelease(t)
    \/ \E t \in PoolThreads : PoolRecycle(t)

SpecPool == InitWrite /\ [][NextPool]_vars

\* sessions of one transport object: connect, outbound traffic, terminate,
\* join, and connect again
NextReconnect ==
    \/ Connect
    \/ IoTop
    \/ IoWrite
    \/ IoWriteQueue
    \/ IoQuit
    \/ Terminate
    \/ Join
    \/ Enqueue
    \/ Reconnect

SpecReconnect == InitWrite /\ [][NextReconnect]_vars

\* the bot manager with its contexts; the server's frames arrive as decoded
\* core messages
Next ==
    \/ Connect
    \/ IoTop
    \/ IoDeliver
    \/ Route
    \/ SpawnComplete
    \/ FinishRead
    \/ IoQuit
    \/ Terminate
    \/ Join
    \/ \E c \in Workers : WorkerStart(c)
    \/ \E c \in Workers : WorkerOuter(c)
    \/ \E c \in Contexts : ServiceLoopEnter(c)
    \/ \E c \in Contexts : MatchCommCallback(c)
    \/ \E c \in Contexts : UpdateCallback(c)
    \/ \E c \in Contexts : GetOutputCallbacks(c)
    \/ \E c \in Contexts : DrainCallbacks(c)
    \/ \E c \in Contexts : ServiceLoopReturn(c)
    \/ \E c \in Workers : WorkerWait(c)
    \/ \E c \in Workers : WorkerWake(c)
    \/ \E c \in Workers : SpuriousWake(c)
    \/ \E c \in Workers : ContextDestroy(c)
    \/ \E c \in Workers : ContextJoined(c)

Spec == InitWrite /\ [][Next]_vars

\* the ControllableTeamInfo messages a server may send
ControllableSeqs ==
    UNION {[1 .. n -> [identifier : Identifiers, index : PlayerIndices]] :
             n \in 0 .. MaxControllables}

\* the server's stream of SpecSpawn: each message of the handshake once, in
\* any order
HandshakeMessages ==
    {[kind |-> k, tick |-> 0, players |-> 0, comm |-> NoComm] :
        k \in ControlKinds \ cachedControl}

\* matches received in full: one message of each kind per match
CompleteMatches ==
    CHOOSE n \in 0 .. MaxControl :
        /\ \A k \in ControlKinds : controlCount[k] >= n
        /\ \E k \in ControlKinds : controlCount[k] = n

\* the server's stream of SpecSession: match after match on one connection,
\* the three control-plane messages of each match in any order, and game
\* packets
SessionMessages ==
    {[kind |-> k, tick |-> 0, players |-> 0, comm |-> NoComm] :
        k \in {x \in ControlKinds : /\ controlSeen < MaxControl
                                    /\ controlCount[x] = CompleteMatches}}
    \cup {[kind |-> "GamePacket", tick |-> nextTick, players |-> n, comm |-> NoComm] :
             n \in {k \in PlayerCounts : nextTick <= MaxTick}}

\* a read completion is dequeued: handleRead starts on the frames it holds
Delivery(msgs) ==
    /\ ioPc = "blocked"
    /\ phase = "running"
    /\ msgs # {}
    /\ ioPc' = "reading"
    /\ inRead' = 0
    /\ UNCHANGED <<phase, running, userQuit, streamVars, connVars, faultVars, poolVars, loopVars, predVars, transportVars, userVars,
                   nextTick, commsSent, disconnectSent, botVars,
                   histVars, matchVars, spawnVars>>

IoDeliverHandshake == Delivery(HandshakeMessages)

IoDeliverSession == Delivery(SessionMessages)

\* handleRead hands one message of the handshake to handleMessage
RouteHandshake ==
    /\ ioPc = "reading"
    /\ PrimaryIdle
    /\ inRead < MaxBatch
    /\ inRead' = inRead + 1
    /\ \E m \in HandshakeMessages : RouteControlKind(m)
    /\ UNCHANGED <<phase, running, userQuit, streamVars, connVars, faultVars, poolVars, loopVars, predVars, userVars>>

\* handleRead hands one control-plane message of the session to handleMessage
RouteSessionControl ==
    /\ ioPc = "reading"
    /\ PrimaryIdle
    /\ inRead < MaxBatch
    /\ inRead' = inRead + 1
    /\ \E m \in SessionMessages : RouteControlKind(m)
    /\ UNCHANGED <<phase, running, userQuit, streamVars, connVars, faultVars, poolVars, loopVars, predVars, userVars>>

\* handleRead hands one game packet of the session to handleMessage
RouteSessionPacket ==
    /\ ioPc = "reading"
    /\ PrimaryIdle
    /\ inRead < MaxBatch
    /\ inRead' = inRead + 1
    /\ \E m \in SessionMessages : RouteGamePacket(m)
    /\ UNCHANGED <<phase, running, userQuit, streamVars, connVars, faultVars, poolVars, loopVars, predVars, userVars>>

\* frames of the run that fail verification
MaxInvalid == 2

\* the server's stream of SpecInvalid: the handshake of one match, its
\* messages in any order, then game packets
MatchMessages ==
    HandshakeMessages
    \cup {[kind |-> "GamePacket", tick |-> nextTick, players |-> n, comm |-> NoComm] :
             n \in {k \in PlayerCounts : nextTick <= MaxTick /\ spawnCount >= 1}}

IoDeliverMatch == Delivery(MatchMessages)

\* handleRead hands one message of the match to handleMessage
RouteMatch ==
    /\ ioPc = "reading"
    /\ PrimaryIdle
    /\ inRead < MaxBatch
    /\ inRead' = inRead + 1
    /\ \E m \in MatchMessages : RouteControlKind(m) \/ RouteGamePacket(m)
    /\ UNCHANGED <<phase, running, userQuit, streamVars, connVars, faultVars, poolVars, loopVars, predVars, userVars>>

\* a corePacket that does not run the verifier
VerifiesAlways(valid) == TRUE

\* Message::corePacket (true): the verifier accepts the payload
Verifies(valid) == valid

\* handleRead hands handleMessage a frame whose payload does not verify: a
\* corrupted copy of a message the server could send now
RouteInvalid ==
    /\ ioPc = "reading"
    /\ PrimaryIdle
    /\ inRead < MaxBatch
    /\ Len(invalidLog) < MaxInvalid
    /\ inRead' = inRead + 1
    /\ invalidLog' = Append(invalidLog, [control |-> controlSeen, tick |-> nextTick])
    /\ \E m \in MatchMessages :
         IF Verifies(FALSE)
         THEN RouteControlKind(m) \/ RouteGamePacket(m)
         ELSE \* "Invalid core packet received"
              UNCHANGED <<nextTick, commsSent, disconnectSent, botVars, histVars,
                          ioPc, matchVars, spawnVars, transportVars>>
    /\ UNCHANGED <<phase, running, userQuit, streamVars, connVars, predVars, loopVars,
                   poolVars, userVars>>

\* one handshake with any ControllableTeamInfo, in either mode, with and
\* without loadouts
InitSpawn ==
    /\ InitTransport
    /\ sent = <<>>
    /\ wire = <<>>
    /\ batchHivemind \in BOOLEAN
    /\ controllables \in ControllableSeqs
    /\ enableRendering = FALSE
    /\ enableStateSetting = FALSE
    /\ agent \in {[QuietAgent EXCEPT !.loadout = l] : l \in BOOLEAN}

NextSpawn ==
    \/ Connect
    \/ IoTop
    \/ IoDeliverHandshake
    \/ RouteHandshake
    \/ ClearBots
    \/ BotsCleared
    \/ SpawnStep
    \/ SpawnFinish
    \/ StartServices
    \/ InitializePrimary
    \/ SpawnComplete
    \/ FinishRead
    \/ \E c \in Workers : WorkerStart(c)
    \/ \E c \in Workers : WorkerOuter(c)
    \/ \E c \in Workers : ServiceLoopEnter(c)
    \/ \E c \in Workers : WorkerWait(c)

SpecSpawn == InitSpawn /\ [][NextSpawn]_vars

\* the standard match in either mode, with quiet agents
InitSession ==
    /\ InitTransport
    /\ sent = <<>>
    /\ wire = <<>>
    /\ batchHivemind \in BOOLEAN
    /\ controllables = DefaultControllables
    /\ enableRendering = FALSE
    /\ enableStateSetting = FALSE
    /\ agent = QuietAgent

NextSession ==
    \/ Connect
    \/ IoTop
    \/ IoDeliverSession
    \/ RouteSessionControl
    \/ RouteSessionPacket
    \/ ClearBots
    \/ BotsCleared
    \/ SpawnStep
    \/ SpawnFinish
    \/ StartServices
    \/ InitializePrimary
    \/ SpawnComplete
    \/ FinishRead
    \/ \E c \in Workers : WorkerStart(c)
    \/ \E c \in Workers : WorkerOuter(c)
    \/ \E c \in Contexts : ServiceLoopEnter(c)
    \/ \E c \in Contexts : UpdateCallback(c)
    \/ \E c \in Contexts : GetOutputCallbacks(c)
    \/ \E c \in Contexts : DrainCallbacks(c)
    \/ \E c \in Contexts : ServiceLoopReturn(c)
    \/ \E c \in Workers : WorkerWait(c)
    \/ \E c \in Workers : WorkerWake(c)
    \/ \E c \in Workers : ContextDestroy(c)
    \/ \E c \in Workers : ContextJoined(c)

SpecSession == InitSession /\ [][NextSession]_vars

\* the standard match with one context per player and quiet agents
InitInvalid ==
    /\ InitTransport
    /\ sent = <<>>
    /\ wire = <<>>
    /\ batchHivemind = FALSE
    /\ controllables = DefaultControllables
    /\ enableRendering = FALSE
    /\ enableStateSetting = FALSE
    /\ agent = QuietAgent

\* one match with frames that fail verification among the server's
NextInvalid ==
    \/ Connect
    \/ IoTop
    \/ IoDeliverMatch
    \/ RouteMatch
    \/ RouteInvalid
    \/ ClearBots
    \/ BotsCleared
    \/ SpawnStep
    \/ SpawnFinish
    \/ StartServices
    \/ InitializePrimary
    \/ SpawnComplete
    \/ FinishRead
    \/ \E c \in Workers : WorkerStart(c)
    \/ \E c \in Workers : WorkerOuter(c)
    \/ \E c \in Contexts : ServiceLoopEnter(c)
    \/ \E c \in Contexts : UpdateCallback(c)
    \/ \E c \in Contexts : GetOutputCallbacks(c)
    \/ \E c \in Contexts : DrainCallbacks(c)
    \/ \E c \in Contexts : ServiceLoopReturn(c)
    \/ \E c \in Workers : WorkerWait(c)
    \/ \E c \in Workers : WorkerWake(c)

SpecInvalid == InitInvalid /\ [][NextInvalid]_vars

\* BallPredictions the server sends
MaxPredictions == 2

\* the server's stream of SpecPredict: the handshake of one match, its
\* messages in any order, and at any time game packets, ball predictions and
\* one MatchComm
PredictMessages ==
    HandshakeMessages
    \cup {[kind |-> "GamePacket", tick |-> nextTick, players |-> n, comm |-> NoComm] :
             n \in {k \in {2} : nextTick <= MaxTick}}
    \cup {[kind |-> "BallPrediction", tick |-> 0, players |-> 0, comm |-> NoComm] :
             x \in {y \in {1} : Len(predSent) < MaxPredictions}}
    \cup {[kind |-> "MatchComm", tick |-> 0, players |-> 0, comm |-> m] :
             m \in {v \in CommVariants : commsSent < 1 /\ v.index = 2 /\ ~v.teamOnly}}

IoDeliverPredict == Delivery(PredictMessages)

\* handleRead hands a control-plane message, a GamePacket or a MatchComm to
\* handleMessage
RoutePredict ==
    /\ ioPc = "reading"
    /\ PrimaryIdle
    /\ inRead < MaxBatch
    /\ inRead' = inRead + 1
    /\ \E m \in PredictMessages :
         RouteControlKind(m) \/ RouteGamePacket(m) \/ RouteMatchComm(m)
    /\ UNCHANGED <<phase, running, userQuit, streamVars, connVars, faultVars, poolVars, loopVars, predVars, userVars>>

\* a router that hands a BallPrediction on whether or not contexts exist
BotsEmptyNever == FALSE

\* handleMessage: if (m_impl->bots.empty ()) return
BotsEmpty == bots = <<>>

\* handleRead hands a BallPrediction to handleMessage: setBallPrediction on
\* every context, under its mutex, without a notify
RouteBallPrediction ==
    /\ ioPc = "reading"
    /\ PrimaryIdle
    /\ inRead < MaxBatch
    /\ \E m \in PredictMessages : m.kind = "BallPrediction"
    /\ inRead' = inRead + 1
    /\ predSent' = Append(predSent, [next |-> nextTick, taken |-> ~BotsEmpty])
    /\ IF BotsEmpty
       THEN UNCHANGED ballPredictionMessage
       ELSE /\ MutexesFree
            /\ ballPredictionMessage' =
                  [c \in Contexts |-> IF c \in Alive THEN Len(predSent) + 1
                                      ELSE ballPredictionMessage[c]]
    /\ UNCHANGED <<lifeVars, streamVars, connVars, faultVars, poolVars, loopVars, transportVars, userVars,
                   nextTick, commsSent, disconnectSent, botVars, histVars, matchVars,
                   spawnVars, bp, predLog>>

\* one match on a connection whose server also sends ball predictions
NextPredict ==
    \/ Connect
    \/ IoTop
    \/ IoDeliverPredict
    \/ RoutePredict
    \/ RouteBallPrediction
    \/ ClearBots
    \/ BotsCleared
    \/ SpawnStep
    \/ SpawnFinish
    \/ StartServices
    \/ InitializePrimary
    \/ SpawnComplete
    \/ FinishRead
    \/ \E c \in Workers : WorkerStart(c)
    \/ \E c \in Workers : WorkerOuter(c)
    \/ \E c \in Contexts : ServiceLoopEnter(c)
    \/ \E c \in Contexts : MatchCommCallback(c)
    \/ \E c \in Contexts : UpdateCallback(c)
    \/ \E c \in Contexts : GetOutputCallbacks(c)
    \/ \E c \in Contexts : DrainCallbacks(c)
    \/ \E c \in Contexts : ServiceLoopReturn(c)
    \/ \E c \in Workers : WorkerWait(c)
    \/ \E c \in Workers : WorkerWake(c)

SpecPredict == InitInvalid /\ [][NextPredict]_vars

\* MatchComms the agents of a run send
MaxLoopbacks == 2

\* m_serviceThread, and the m_thread of context c
ServiceThread == 0

\* the thread that runs the callbacks of context c: the service thread for
\* bots.front (), the thread startService started for every other context
ThreadOf(c) == IF c = Primary THEN ServiceThread ELSE c

\* a loopback that calls loopOnce on whatever thread it is on
OnServiceThreadAlways(th) == TRUE

\* enqueueMessage: m_serviceThread.get_id () == std::this_thread::get_id ()
OnServiceThread(th) == th = ServiceThread

\* serviceLoop of context c sends a MatchComm its agent has queued:
\* enqueueMessage gives it to the other contexts of this manager
\* (addMatchComm with notify on all but the first, without notify on the
\* first) and then runs the first context's loopOnce if it is on the service
\* thread, or posts COMPLETION_KEY_BOT_WAKEUP; a loopOnce made here finds
\* the first context's mutex free and runs the matchComm callbacks for what
\* its queue holds
SendMatchComm(c) ==
    /\ pc[c] = "drain"
    /\ c \in Alive
    /\ loopbacks < MaxLoopbacks
    /\ loopbacks' = loopbacks + 1
    /\ \E index \in bots[c].botIndices :
         LET comm == [index |-> index, team |-> BotTeam, teamOnly |-> FALSE]
             takers == {d \in Alive : AcceptsMatchComm(d, comm)}
             queued == [d \in Contexts |->
                          IF d \in takers THEN Append(matchCommsIn[d], comm)
                          ELSE matchCommsIn[d]]
         IN  /\ \A d \in takers \ {Primary} : ~MutexHeld(d)
             /\ rejected' = rejected \cup {<<d, comm>> : d \in Alive \ takers}
             /\ pc' = NotifyAll(pc, takers \ {Primary})
             /\ IF OnServiceThread(ThreadOf(c))
                THEN /\ loopCalls' = loopCalls \cup {<<Primary, ThreadOf(c)>>}
                     /\ matchCommsIn' = [queued EXCEPT ![Primary] = <<>>]
                     /\ passLog' = [passLog EXCEPT ![Primary] =
                                      @ \o [i \in 1 .. Len(queued[Primary]) |->
                                              Entry("matchComm", 0, queued[Primary][i])]]
                     /\ UNCHANGED wakeups
                ELSE /\ wakeups' = wakeups + 1
                     /\ matchCommsIn' = queued
                     /\ UNCHANGED <<loopCalls, passLog>>
    /\ UNCHANGED <<lifeVars, streamVars, connVars, faultVars, poolVars, predVars, transportVars,
                   userVars, serverVars, matchVars, spawnVars, botsSpawned,
                   controlSeen, botQuit, dtor, gamePacketMessage, matchCommsWork,
                   gp, setLog, collected, updates, outLog>>

\* the service thread dequeues COMPLETION_KEY_BOT_WAKEUP:
\* if (!m_bots.empty ()) m_bots.front ().loopOnce ()
IoBotWakeup ==
    /\ ioPc = "blocked"
    /\ wakeups > 0
    /\ wakeups' = wakeups - 1
    /\ ioPc' = "wakeup"
    /\ IF bots # <<>>
       THEN /\ pc' = [pc EXCEPT ![Primary] = "loop"]
            /\ loopCalls' = loopCalls \cup {<<Primary, ServiceThread>>}
       ELSE UNCHANGED <<pc, loopCalls>>
    /\ UNCHANGED <<phase, running, userQuit, streamVars, connVars, faultVars, poolVars, predVars,
                   loopbacks, transportVars, userVars, serverVars, matchVars,
                   spawnVars, histVars, botsSpawned, controlSeen, botQuit, dtor,
                   gamePacketMessage, matchCommsIn, matchCommsWork, gp>>

\* loopOnce has returned: back to the top of the service thread's loop
IoWakeupDone ==
    /\ ioPc = "wakeup"
    /\ PrimaryIdle
    /\ ioPc' = "top"
    /\ UNCHANGED <<phase, running, userQuit, streamVars, connVars, faultVars, poolVars, predVars,
                   loopVars, transportVars, userVars, ctxVars>>

\* one match whose agents send MatchComms to each other
NextLoopback ==
    \/ Connect
    \/ IoTop
    \/ IoDeliverMatch
    \/ RouteMatch
    \/ IoBotWakeup
    \/ IoWakeupDone
    \/ ClearBots
    \/ BotsCleared
    \/ SpawnStep
    \/ SpawnFinish
    \/ StartServices
    \/ InitializePrimary
    \/ SpawnComplete
    \/ FinishRead
    \/ \E c \in Workers : WorkerStart(c)
    \/ \E c \in Workers : WorkerOuter(c)
    \/ \E c \in Contexts : ServiceLoopEnter(c)
    \/ \E c \in Contexts : MatchCommCallback(c)
    \/ \E c \in Contexts : UpdateCallback(c)
    \/ \E c \in Contexts : GetOutputCallbacks(c)
    \/ \E c \in Contexts : SendMatchComm(c)
    \/ \E c \in Contexts : DrainCallbacks(c)
    \/ \E c \in Contexts : ServiceLoopReturn(c)
    \/ \E c \in Workers : WorkerWait(c)
    \/ \E c \in Workers : WorkerWake(c)

SpecLoopback == InitInvalid /\ [][NextLoopback]_vars

\* the steps of the thread BotContext::startService starts for context c
WorkerThread(c) ==
    \/ WorkerStart(c)
    \/ WorkerOuter(c)
    \/ ServiceLoopEnter(c)
    \/ MatchCommCallback(c)
    \/ UpdateCallback(c)
    \/ GetOutputCallbacks(c)
    \/ DrainCallbacks(c)
    \/ ServiceLoopReturn(c)
    \/ WorkerWait(c)
    \/ WorkerWake(c)

\* the same match with condition variables that may wake on their own
NextWake ==
    \/ NextPredict
    \/ \E c \in Workers : SpuriousWake(c)

\* every worker thread that can take a step is scheduled eventually; a
\* wake-up without a notification is never owed
SpecWake ==
    /\ InitInvalid
    /\ [][NextWake]_vars
    /\ \A c \in Workers : WF_vars(WorkerThread(c))

\* what the agents of a match do each tick: nothing, or a desired game state
\* with a render group or with the removal of one
AgentProfiles ==
    {[loadout |-> FALSE, render |-> r, gameState |-> r # "none"] :
        r \in {"none", "group", "remove"}}

\* the server's stream of SpecOutputs: the handshake, then game packets
OutputMessages ==
    IF cachedControl # ControlKinds
    THEN HandshakeMessages
    ELSE {[kind |-> "GamePacket", tick |-> nextTick, players |-> n, comm |-> NoComm] :
             n \in {k \in PlayerCounts : nextTick <= MaxTick}}

IoDeliverOutputs == Delivery(OutputMessages)

\* handleRead hands one message of the match to handleMessage
RouteOutputs ==
    /\ ioPc = "reading"
    /\ PrimaryIdle
    /\ inRead < MaxBatch
    /\ inRead' = inRead + 1
    /\ \E m \in OutputMessages : RouteControlKind(m) \/ RouteGamePacket(m)
    /\ UNCHANGED <<phase, running, userQuit, streamVars, connVars, faultVars, poolVars, loopVars, predVars, userVars>>

\* the standard match in either mode, with every setting of the two gates and
\* every agent profile
InitOutputs ==
    /\ InitTransport
    /\ sent = <<>>
    /\ wire = <<>>
    /\ batchHivemind \in BOOLEAN
    /\ controllables = DefaultControllables
    /\ enableRendering \in BOOLEAN
    /\ enableStateSetting \in BOOLEAN
    /\ agent \in AgentProfiles

NextOutputs ==
    \/ Connect
    \/ IoTop
    \/ IoDeliverOutputs
    \/ RouteOutputs
    \/ ClearBots
    \/ BotsCleared
    \/ SpawnStep
    \/ SpawnFinish
    \/ StartServices
    \/ InitializePrimary
    \/ SpawnComplete
    \/ FinishRead
    \/ \E c \in Workers : WorkerStart(c)
    \/ \E c \in Workers : WorkerOuter(c)
    \/ \E c \in Contexts : ServiceLoopEnter(c)
    \/ \E c \in Contexts : UpdateCallback(c)
    \/ \E c \in Contexts : GetOutputCallbacks(c)
    \/ \E c \in Contexts : DrainCallbacks(c)
    \/ \E c \in Contexts : ServiceLoopReturn(c)
    \/ \E c \in Workers : WorkerWait(c)
    \/ \E c \in Workers : WorkerWake(c)

SpecOutputs == InitOutputs /\ [][NextOutputs]_vars

(***************************************************************************)
(* Claims                                                                  *)
(***************************************************************************)

IsPrefix(a, b) == Len(a) <= Len(b) /\ SubSeq(b, 1, Len(a)) = a

\* C1: every frame put on the wire reaches handleMessage exactly once, in
\* order and with its payload, whatever the chunking: the handled frames are
\* always a prefix of the frames sent, and the reader does not give up on its
\* own (no terminate () by the user) before it has handled all of them.
C1_FramingRoundTrip ==
    /\ IsPrefix(handled, sent)
    /\ (ioPc = "exited" /\ ~userQuit) => handled = sent

InFreeList(b) == \E i \in 1 .. Len(free[shardOf[b]]) : free[shardOf[b]][i] = b

\* buffers some pool shard has constructed
Allocated == {b \in BufIds : shardOf[b] # 0}

\* number of entries of q that refer to buffer b
Refs(q, b) == Cardinality({i \in 1 .. Len(q) : q[i].buffer = b})

\* C9: after terminate and join, once every context has dropped its Messages,
\* every buffer handed out by a pool shard is back in its free list with no
\* reference left, and each shard's watermark equals the length of its free
\* list.
C9_PoolQuiescence ==
    (phase = "joined" /\ held = <<>>) =>
        /\ \A b \in Allocated : count[b] = 0 /\ InFreeList(b)
        /\ \A sh \in Shards : watermark[sh] = Len(free[sh])

\* C10 as stated: when a read emits several Messages they all refer to one
\* buffer, and that buffer is in its pool exactly when all of them have been
\* dropped.
C10_AsStated ==
    Len(lastRead) >= 2 =>
        /\ \A i, j \in 1 .. Len(lastRead) : lastRead[i].buffer = lastRead[j].buffer
        /\ InFreeList(lastRead[1].buffer) <=>
               ~ \E k \in 1 .. Len(held) : held[k].fresh

\* C10 (amended): the Messages emitted by one read all refer to the same
\* buffer, at increasing offsets; a buffer is in its pool exactly when no
\* Message of any read refers to it and the reader no longer uses it as its
\* read buffer, and its count is the number of those references.
C10_ZeroCopyFanOut ==
    /\ \A i, j \in 1 .. Len(lastRead) :
          /\ lastRead[i].buffer = lastRead[j].buffer
          /\ i < j => lastRead[i].offset < lastRead[j].offset
    /\ \A b \in Allocated :
          /\ InFreeList(b) <=> (inBuffer # b /\ Refs(held, b) = 0
                                /\ Refs(outputQueue, b) = 0)
          /\ count[b] = (IF inBuffer = b THEN 1 ELSE 0) + Refs(held, b)
                        + Refs(outputQueue, b)

\* a read emitted several Messages, all were dropped, the reader moved to
\* another buffer and the shared buffer went back to its pool
C10_Witness ==
    /\ Len(lastRead) >= 2
    /\ inBuffer # lastRead[1].buffer
    /\ InFreeList(lastRead[1].buffer)

\* C6: a thread inside waitForWriterIdle can return exactly when the writer
\* queue is empty and no write submission is in flight.
C6_WriterIdle ==
    waiterPc = "waiting" =>
        (writerIdle <=> (outputQueue = <<>> /\ ~writeInFlight))

\* positions of the entries of a pass log that report callback cb
CallsOf(log, cb) == {i \in 1 .. Len(log) : log[i].cb = cb}

\* C2: every PlayerInput frame produced in response to GamePacket T is queued
\* before any frame produced in response to GamePacket T + 1, over all
\* contexts together.
C2_CrossTickOrdering ==
    \A i, j \in 1 .. Len(outLog) :
        (/\ outLog[i].kind = "PlayerInput"
         /\ outLog[j].kind = "PlayerInput"
         /\ outLog[j].tick = outLog[i].tick + 1) => i < j

\* order of the callbacks within one pass
Rank(cb) ==
    CASE cb = "matchComm" -> 1
      [] cb = "update" -> 2
      [] cb = "getOutput" -> 3
      [] cb = "getMatchComms" -> 4
      [] cb = "getRenderMessages" -> 5
      [] cb = "getDesiredGameState" -> 6

\* the indices of context c a game packet has a player for
OutputIndices(c, packet) == {i \in Indices[c] : i < packet.players}

\* C3: within one pass of a context's service loop the callbacks run in the
\* order matchComm, update, getOutput, getMatchComms, getRenderMessages,
\* getDesiredGameState; when update is called every collected comm has had
\* its matchComm callback, in arrival order; when the outputs are drained
\* every getOutput call has been made and its PlayerInput has been queued.
C3_IntraTickOrdering ==
    \A c \in Contexts :
        LET log == passLog[c] IN
        /\ \A i, j \in 1 .. Len(log) :
              i < j => /\ Rank(log[i].cb) <= Rank(log[j].cb)
                       /\ Rank(log[i].cb) = Rank(log[j].cb) => Rank(log[i].cb) \in {1, 3}
        /\ CallsOf(log, "update") # {} =>
              /\ Cardinality(CallsOf(log, "matchComm")) = Len(collected[c].comms)
              /\ \A i \in 1 .. Len(collected[c].comms) :
                    log[i] = Entry("matchComm", 0, collected[c].comms[i])
        /\ CallsOf(log, "getMatchComms") # {} =>
              /\ Cardinality(CallsOf(log, "matchComm")) = Len(collected[c].comms)
              /\ gp[c] # NoMessage =>
                    /\ Cardinality(CallsOf(log, "update")) = 1
                    /\ {log[i].n : i \in CallsOf(log, "getOutput")}
                           = OutputIndices(c, gp[c])
                    /\ \A x \in OutputIndices(c, gp[c]) :
                          \E k \in 1 .. Len(outLog) :
                              outLog[k] = Frame("PlayerInput", c, gp[c].tick, x,
                                                bots[c].gen)

\* a pass that had a comm and a game packet has gone through all its
\* callbacks
C3_Witness ==
    \E c \in Contexts :
        /\ CallsOf(passLog[c], "matchComm") # {}
        /\ CallsOf(passLog[c], "update") # {}
        /\ CallsOf(passLog[c], "getOutput") # {}
        /\ CallsOf(passLog[c], "getDesiredGameState") # {}

C7_TeardownTerminates ==
    \A c \in Workers : ~(dtor[c] = "joining" /\ pc[c] = "wait")

\* C8: once quit has been requested on the transport, no agent callback is
\* started on any context.
C8_NoCallbacksAfterQuit ==
    [][(\E c \in Contexts : Len(passLog'[c]) > Len(passLog[c])) => ~quitRequested]_vars

\* the step is a call of sendInterfacePacket by a user thread
EnqueueStep == enqCount' = enqCount + 1

\* C12: a call of sendInterfacePacket with a payload larger than the largest
\* encodable size produces no frame and leaves the transport as it was: the
\* writer queue, the in-flight list, the writer-idle flag, the quit flag, the
\* posted events and the pools are unchanged, and the connection stays open.
C12_OversizeGuard ==
    [][(EnqueueStep /\ enqSizes'[Len(enqSizes')] > MaxPayloadLen) =>
          /\ UNCHANGED transportVars
          /\ UNCHANGED <<phase, running, ioPc>>]_vars

\* an oversize call was followed by a call with a valid payload whose frame
\* was queued and has been written completely
C12_Witness ==
    /\ Len(enqSizes) = 2
    /\ enqSizes[1] > MaxPayloadLen
    /\ enqSizes[2] <= MaxPayloadLen
    /\ outputQueue = <<>>
    /\ writerIdle
    /\ ~quitRequested
    /\ phase = "running"

\* C13: between the request to quit and the close of the transport, a call of
\* sendInterfacePacket is dropped: it adds nothing to the writer queue, issues
\* no write submission and posts no write-queue event.
C13_EnqueueOnlyWhileRunning ==
    [][(EnqueueStep /\ quitRequested /\ phase = "running") =>
          UNCHANGED <<outputQueue, iov, writeInFlight, wqEvents>>]_vars

\* spawnBots has created its last context
SpawnSettled == spawnCount >= 1 /\ ioPc \notin {"clearBots", "destroy", "spawnLoop"}

\* the controllable names a player configuration of this team that is a
\* custom bot
Eligible(ctl) ==
    \E i \in 1 .. Len(PlayerConfigurations) :
        /\ PlayerConfigurations[i].player_id = ctl.identifier
        /\ PlayerConfigurations[i].team = BotTeam
        /\ PlayerConfigurations[i].customBot

EligibleIndices ==
    {controllables[i].index :
        i \in {j \in 1 .. Len(controllables) : Eligible(controllables[j])}}

OwnedIndices == UNION {bots[c].indices : c \in Alive}

\* the factory calls of the latest spawn
FactoryCalls == SelectSeq(spawnLog, LAMBDA e : e.gen = spawnCount)

C15_DuplicateIndexRejection ==
    SpawnSettled =>
        /\ \A c, d \in Alive : c # d => bots[c].indices \cap bots[d].indices = {}
        /\ \A i, j \in 1 .. Len(FactoryCalls) :
             i # j => FactoryCalls[i].indices \cap FactoryCalls[j].indices = {}

\* C16: with batchHivemind a spawn creates one context owning all accepted
\* indices and calls the factory once with that set; without it a spawn
\* creates one context per accepted index, each context and each factory call
\* holding that single index.
C16_ContextCardinality ==
    SpawnSettled =>
        IF batchHivemind
        THEN /\ Len(bots) = 1
             /\ bots[1].indices = EligibleIndices
             /\ Len(FactoryCalls) = 1
             /\ FactoryCalls[1].indices = EligibleIndices
        ELSE /\ Len(bots) = Cardinality(EligibleIndices)
             /\ Len(FactoryCalls) = Cardinality(EligibleIndices)
             /\ \A c \in Alive :
                  /\ Cardinality(bots[c].indices) = 1
                  /\ FactoryCalls[c].indices = bots[c].indices

InitCompleteAt(i) == outLog[i].kind = "InitComplete"

\* C17: InitComplete is enqueued only after every context of the spawn is
\* ready and after every SetLoadout frame of that spawn.
C17_InitCompleteFollowsReadiness ==
    \A i \in 1 .. Len(outLog) :
        InitCompleteAt(i) =>
            /\ \A j \in 1 .. Len(outLog) :
                 (outLog[j].kind = "SetLoadout" /\ outLog[j].gen = outLog[i].gen)
                    => j < i
            /\ (outLog[i].gen = spawnCount /\ SpawnSettled)
                  => \A c \in Alive : Ready(c)

\* InitComplete went out for a spawn with a worker context and a loadout
C17_Witness ==
    /\ Len(bots) >= 2
    /\ \E i, j \in 1 .. Len(outLog) :
         j < i /\ InitCompleteAt(i) /\ outLog[j].kind = "SetLoadout"

\* a callback of the agent of context c is invoked in this step
CallbackStep(c) == Len(passLog'[c]) > Len(passLog[c])

\* the factory is called in this step
FactoryStep == Len(spawnLog') > Len(spawnLog)

\* C11: on a restart every existing context is terminated and its thread
\* joined before a new agent is constructed (no context has a thread or an
\* initialized agent when the factory is called), and once a new agent has
\* been constructed only contexts of that spawn invoke callbacks.
C11_RestartJoinsFirst ==
    [][ /\ FactoryStep => \A c \in Contexts : pc[c] = "none"
        /\ \A c \in Contexts :
             CallbackStep(c) =>
                /\ c \in Alive
                /\ bots[c].gen = spawnLog[Len(spawnLog)].gen ]_vars

\* a second spawn has constructed an agent after a worker context of the
\* first spawn had sent a PlayerInput
C11_Witness ==
    /\ \E i \in 1 .. Len(spawnLog) : spawnLog[i].gen = 2
    /\ \E i \in 1 .. Len(outLog) :
         /\ outLog[i].kind = "PlayerInput"
         /\ outLog[i].ctx # Primary
         /\ outLog[i].gen = 1

\* the reader thread is not inside spawnBots
OutsideSpawn ==
    ioPc \notin {"clearBots", "destroy", "spawnLoop", "startService", "initialize",
                 "waitInitialized"}

InitCompletes == Len(SelectSeq(outLog, LAMBDA f : f.kind = "InitComplete"))

\* C18: exactly one InitComplete is enqueued per match, a match being one
\* ControllableTeamInfo, one FieldInfo and one MatchConfiguration, also for a
\* match that follows an earlier one on the same connection.
C18_OneInitCompletePerMatch == OutsideSpawn => InitCompletes = CompleteMatches

\* PlayerInput frames context c has sent for index x at the tick of its
\* current game packet
InputsSent(c, x) ==
    Len(SelectSeq(outLog, LAMBDA f : f = Frame("PlayerInput", c, gp[c].tick, x,
                                               bots[c].gen)))

\* getOutput calls of the current pass of context c for index x
OutputCalls(c, x) ==
    Len(SelectSeq(passLog[c], LAMBDA e : e.cb = "getOutput" /\ e.n = x))

C20_FeatureGatedOutputs ==
    \A i \in 1 .. Len(outLog) :
        /\ outLog[i].kind \in {"RenderGroup", "RemoveRenderGroup"} => enableRendering
        /\ outLog[i].kind = "DesiredGameState" => enableStateSetting

\* an agent returned render messages and a game state with rendering disabled
\* and state setting enabled: the game state went out, the render group not
C20_Witness ==
    /\ ~enableRendering
    /\ enableStateSetting
    /\ \E c \in Alive :
         /\ pc[c] = "relock"
         /\ \E i \in 1 .. Len(passLog[c]) :
              passLog[c][i].cb = "getRenderMessages" /\ passLog[c][i].n # 0
         /\ \E i \in 1 .. Len(passLog[c]) :
              passLog[c][i].cb = "getDesiredGameState" /\ passLog[c][i].n = 1
         /\ \E i \in 1 .. Len(outLog) :
              outLog[i] = Frame("DesiredGameState", c, gp[c].tick, 0, bots[c].gen)

\* the bytes of the frames sendInterfacePacket has queued, in the order of the
\* calls
RECURSIVE FramesFrom(_)
FramesFrom(i) ==
    IF i > Len(enqSizes) THEN <<>>
    ELSE (IF enqSizes[i] > MaxPayloadLen THEN <<>>
          ELSE [j \in 1 .. enqSizes[i] + HEADER_SIZE |-> <<i, j - 1>>])
         \o FramesFrom(i + 1)

\* C25: the bytes handed to the socket are the concatenation of the enqueued
\* frames in insertion order, every byte once, none skipped, duplicated or
\* reordered: what the socket has taken, followed by what the outstanding
\* submission covers, is at every moment a prefix of that concatenation.
C25_OutboundFifo ==
    /\ IsPrefix(sockBytes, FramesFrom(1))
    /\ writeInFlight => IsPrefix(sockBytes \o BytesOf(submitted), FramesFrom(1))

\* more frames were queued than one submission carries: the first went out
\* alone, a second submission carried the next PREALLOCATED_BUFFERS frames and
\* left one in the queue, and the socket has taken all of the second submission
C25_Witness ==
    /\ Len(sockBytes) > 0
    /\ sockBytes[Len(sockBytes)][1] = PREALLOCATED_BUFFERS + 1
    /\ Len(outputQueue) = 1
    /\ outputQueue[1].tag.n = PREALLOCATED_BUFFERS + 2
    /\ writeInFlight

\* C26: at most one write submission is outstanding at any time.
C26_SingleWriteInFlight == outstanding <= 1

\* a frame was enqueued behind an outstanding submission and a write-queue
\* event for it has been handled while that submission was still outstanding
C26_Witness ==
    /\ writeInFlight
    /\ outstanding = 1
    /\ Len(outputQueue) >= 2
    /\ wqEvents = 0
    /\ enqCount >= 2
    /\ sockBytes = <<>>

\* C27: after a write completion that ended inside a frame a submission is
\* outstanding that starts at the remembered offset of the front frame.
C27_PartialWriteResumed ==
    (outStartOffset > 0 /\ ~quitRequested) =>
        /\ writeInFlight
        /\ submitted # <<>>
        /\ submitted[1].n = outputQueue[1].tag.n
        /\ submitted[1].from = outStartOffset

\* the service thread dequeues a read completion of 0 bytes or a failed
\* completion: it leaves its wait and no byte of the stream was delivered
FailureStep == ioPc = "blocked" /\ ioPc' # "blocked" /\ wire' = wire /\ ~quit

\* C28: on a read completion of 0 bytes or a failed completion the service
\* thread requests teardown (quit set, writer-idle waiters released); from
\* then on it handles no inbound frame, issues no read and does not wait for
\* another completion.
C28_FailureLeadsToTeardown ==
    [][ /\ FailureStep => (quit' /\ writerIdle' /\ handled' = handled)
        /\ quit => /\ handled' = handled
                   /\ readReq' = readReq
                   /\ ioPc' # "blocked" ]_vars

\* the peer closed in the middle of the stream: the reader had handled a frame,
\* then took the 0-byte read and has left its loop
C28_Witness ==
    /\ peerClosed
    /\ Len(handled) >= 1
    /\ readReq = -1
    /\ quit
    /\ writerIdle
    /\ ioPc = "exited"

\* C30: at every read submission the target region is non-empty: whatever
\* tail handleRead leaves, the read it then requests has room for a byte.
C30_ReaderNeverRunsOut ==
    readReq >= 0 => (inEndOffset < BUFFER_SIZE /\ readReq >= 1)

\* a call of BotManagerBase::connect returns
ConnectStep == connects' = connects + 1

\* the call had no agent id: argument null, RLBOT_AGENT_ID unset or empty
NoAgentId(e) == e.arg = "null" /\ e.env \in {"unset", "empty"}

\* C23: every successful connect of a bot manager enqueues exactly one
\* ConnectionSettings frame, and that frame is the first of the connection's
\* outbound stream: nothing was enqueued before it, it is the frame numbered 1,
\* no later frame is a ConnectionSettings and the first byte the socket takes
\* is its first byte.  A connect without an agent id returns false, opens no
\* socket, starts no thread and enqueues nothing.
C23_ConnectionSettingsFirst ==
    [][ /\ ConnectStep =>
             /\ lastConnect'.result = "connected" =>
                   /\ enqCount = 0
                   /\ enqSizes' = <<ConnectionSettingsSize>>
                   /\ Len(outputQueue') = 1
                   /\ outputQueue'[1].tag = [kind |-> ConnectionSettingsType, n |-> 1]
             /\ NoAgentId(lastConnect') =>
                   /\ lastConnect'.result \in {"noAgent", "refused"}
                   /\ UNCHANGED <<lifeVars, sock, iocpHandle, transportVars, userVars>>
        /\ \A i \in 1 .. Len(outputQueue') :
             (outputQueue'[i].tag.kind = ConnectionSettingsType) =
             (outputQueue'[i].tag.n = 1)
        /\ sockBytes' # <<>> => sockBytes'[1] = <<1, 0>> ]_vars

\* a connect without an agent id has returned after an earlier one failed in
\* setup, and a later connect has sent its ConnectionSettings, followed on the
\* socket by a frame of a user thread
C23_Witness ==
    /\ connects = MaxConnects
    /\ lastConnect.result = "refused"
    /\ NoAgentId(lastConnect)
    /\ sockBytes # <<>>
    /\ sockBytes[Len(sockBytes)][1] = 2
    /\ enqSizes[1] = ConnectionSettingsSize

\* C24: a connect that fails in a setup step returns false, starts no service
\* thread and leaves connected () false, and the connect call that follows it
\* on the same object is not refused as already connected.
C24_SetupFailureIsClean ==
    [][ ConnectStep =>
          /\ lastConnect'.failAt > 0 =>
                /\ lastConnect'.result = "failed"
                /\ ioPc' = "none"
                /\ ~running'
                /\ sock' # "open"
                /\ ~iocpHandle'
          /\ lastConnect.result = "failed" => lastConnect'.result # "refused" ]_vars

\* a second connect call has failed in the last setup step: no thread runs,
\* the socket is closed and the idle waiters have been released
C24_Witness ==
    /\ connects = 2
    /\ lastConnect.result = "failed"
    /\ lastConnect.failAt = Len(SetupSteps)
    /\ ~running
    /\ ioPc = "none"
    /\ sock = "invalid"
    /\ writerIdle

\* handleMessage has just handled a MatchComm
MatchCommStep == commsSent' = commsSent + 1

\* C22: an inbound MatchComm is appended to the inbound queue of every
\* context whose self and team filters it passes, the primary context
\* included: when handleMessage appends the MatchComm to the queue of one
\* context, it appends it to the queue of every context that accepts it.
C22_MatchCommReachesEveryContext ==
    [][ MatchCommStep =>
          \A c \in Alive, d \in Alive :
              Len(matchCommsIn'[c]) = Len(matchCommsIn[c]) + 1 =>
                  LET m == matchCommsIn'[c][Len(matchCommsIn'[c])]
                  IN  AcceptsMatchComm(d, m) =>
                          matchCommsIn'[d] = Append(matchCommsIn[d], m) ]_vars

\* handleMessage has just been handed a frame that fails verification
InvalidStep == Len(invalidLog') = Len(invalidLog) + 1

\* C29: a frame whose payload fails verification replaces no cached
\* control-plane message, triggers no spawn and reaches no context, and the
\* reader goes on to the next frame of the read: the step changes nothing but
\* the reader's position.
C29_InvalidPayloadDropped ==
    [][ InvalidStep =>
          /\ inRead' = inRead + 1
          /\ ioPc' = "reading"
          /\ UNCHANGED <<nextTick, controlSeen, botVars, histVars, matchVars,
                         spawnVars, transportVars, lifeVars>> ]_vars

\* an invalid frame arrived in the middle of the handshake and another one
\* after the spawn; the handshake completed all the same, and a game packet
\* that came after both has been passed to update
C29_Witness ==
    /\ Len(invalidLog) = 2
    /\ invalidLog[1].control \in 1 .. (NumControl - 1)
    /\ invalidLog[2].control = NumControl
    /\ spawnCount = 1
    /\ \E i \in 1 .. Len(updates[Primary]) :
          updates[Primary][i] >= invalidLog[2].tick

\* the callbacks a serviceLoop pass makes on the agent
AgentCallbacks == {"matchComm", "update", "getOutput", "getMatchComms",
                   "getRenderMessages", "getDesiredGameState"}

\* the positions of a serviceLoop pass between lock_.unlock () and the return
PassStages == {"matchComm", "update", "getOutput", "drain", "relock"}

AcceptedNames(indices) ==
    {PlayerConfigurations[FindPlayer(controllables[i].identifier)].name :
        i \in {j \in 1 .. Len(controllables) :
                  /\ Eligible(controllables[j])
                  /\ controllables[j].index \in indices}}

\* C40: in batch-hivemind mode, a factory call made for at least one accepted
\* controllable is passed the configured name of one of the accepted players.
C40_HivemindAgentName ==
    batchHivemind =>
        \A i \in 1 .. Len(spawnLog) :
            spawnLog[i].indices # {} =>
                spawnLog[i].name \in AcceptedNames(spawnLog[i].indices)

\* C34: the capacity of a pooled buffer is at least twice the number of values
\* of the 16-bit size field, and any two frames the server sends one after
\* the other, maximum-size frames included, fit together in one buffer.
C34_BufferCapacity ==
    /\ BUFFER_SIZE >= 2 * (MaxPayloadLen + 1)
    /\ \A i \in 1 .. (Len(sent) - 1) :
          Len(BuildMessage(sent[i].type, sent[i].payload)) +
          Len(BuildMessage(sent[i + 1].type, sent[i + 1].payload)) <= BUFFER_SIZE

\* handleRead passes a frame to handleMessage
FrameStep == inRead' = inRead + 1

\* C35: the I/O thread passes a frame to handleMessage only when the primary
\* context is not inside loopOnce, and whenever the primary's loopOnce has
\* returned the primary has made exactly one update call for every GamePacket
\* routed since the contexts exist, in arrival order.
C35_PrimaryNeverCoalesces ==
    [][ /\ FrameStep => pc[Primary] \in {"none", "idle"}
        /\ (botsSpawned' /\ pc'[Primary] = "idle") =>
               updates'[Primary] = [i \in 1 .. (nextTick' - 1) |-> i] ]_vars

\* the primary has made an update call for each of two game packets and is
\* back in handleRead, while a worker that was given the same two packets
\* has made one update call only
C35_Witness ==
    /\ botsSpawned
    /\ pc[Primary] = "idle"
    /\ Len(updates[Primary]) = 2
    /\ \E c \in Workers \cap Alive :
          /\ updates[c] = <<2>>
          /\ pc[c] = "wait"

\* a connect () on a joined transport returns
ReconnectStep == phase = "joined" /\ phase' = "running"

\* C37: after join () and a successful connect () on the same transport the
\* read offsets are 0, the partial-write offset is 0, the in-flight iov list
\* is empty and the writer queue is empty, whatever was in progress when the
\* previous session was torn down.
C37_ReconnectStartsClean ==
    [][ReconnectStep =>
          /\ inStartOffset' = 0
          /\ inEndOffset' = 0
          /\ outStartOffset' = 0
          /\ iov' = <<>>
          /\ outputQueue' = <<>>]_vars

\* the bytes of buffer b that the Message at offset off spans
SpanBytes(m, b, off) ==
    [k \in 0 .. (SizeWithHeader(m, b, off) - 1) |-> m[b][off + k]]

\* C36: the region [inEndOffset, capacity) handed to a read submission never
\* overlaps the span of a Message that has been emitted and is still held,
\* and no read changes a byte of such a Message, also after the reader has
\* rotated to a buffer obtained from the pool.
C36_ReadsSpareLiveMessages ==
    [][ /\ readReq' >= 0 =>
             \A i \in 1 .. Len(held') :
                held'[i].buffer = inBuffer' =>
                   held'[i].offset + SizeWithHeader(mem', inBuffer', held'[i].offset)
                      <= inEndOffset'
        /\ mem' # mem =>
             \A i \in 1 .. Len(held) :
                SpanBytes(mem', held[i].buffer, held[i].offset)
                   = SpanBytes(mem, held[i].buffer, held[i].offset) ]_vars

\* a read is outstanding behind a held Message of the current buffer, to
\* which the reader has rotated while a Message of an earlier buffer is held
C36_Witness ==
    /\ readReq > 0
    /\ inEndOffset > 0
    /\ \E i, j \in 1 .. Len(held) :
          /\ held[i].buffer = inBuffer
          /\ held[j].buffer # inBuffer

\* the BallPrediction paired with the GamePacket of tick t: the last one the
\* contexts were given before that packet arrived, 0 if there is none
Paired(t) ==
    LET before == {n \in 1 .. Len(predSent) : predSent[n].taken /\ predSent[n].next <= t}
    IN  IF before = {} THEN 0 ELSE CHOOSE n \in before : \A k \in before : k <= n

\* C32: the BallPrediction passed to update together with GamePacket G is the
\* most recent BallPrediction that arrived before G, or none if there is no
\* such BallPrediction; one that arrives after G is never passed to the
\* update call made for G, on the primary context and on the worker contexts.
C32_BallPredictionPairing ==
    \A c \in Contexts :
       \A i \in 1 .. Len(predLog[c]) :
          predLog[c][i].pred = Paired(predLog[c][i].tick)

\* handleMessage is handed a GamePacket, a BallPrediction or a MatchComm
DataStep ==
    \/ nextTick' = nextTick + 1
    \/ commsSent' = commsSent + 1
    \/ Len(predSent') = Len(predSent) + 1

\* the slots through which a message reaches a context
Slots == <<gamePacketMessage, matchCommsIn, ballPredictionMessage, setLog>>

SlotsEmpty ==
    \A c \in Contexts :
       /\ gamePacketMessage[c] = NoMessage
       /\ matchCommsIn[c] = <<>>
       /\ ballPredictionMessage[c] = 0

\* C31: no context exists and the agent factory is not invoked until a
\* ControllableTeamInfo, a FieldInfo and a MatchConfiguration have all been
\* received, in any order; a GamePacket, BallPrediction or MatchComm that
\* arrives while no context exists is dropped: it enters no slot, and the
\* contexts spawned later start with empty slots and are never given a
\* BallPrediction that no context took.
C31_SpawnGating ==
    [][ /\ cachedControl' # ControlKinds =>
             /\ bots' = <<>>
             /\ spawnLog' = <<>>
             /\ \A c \in Contexts : pc'[c] = "none"
        /\ (DataStep /\ bots = <<>>) =>
             /\ UNCHANGED <<Slots, bots, pc, gp, bp, updates, predLog, passLog, outLog>>
             /\ SlotsEmpty'
        /\ (bots = <<>> /\ bots' # <<>>) => SlotsEmpty'
        /\ \A c \in Contexts :
              \A i \in 1 .. Len(predLog'[c]) :
                 predLog'[c][i].pred # 0 => predSent'[predLog'[c][i].pred].taken ]_vars

\* a BallPrediction, GamePacket 1 and the MatchComm came before the contexts
\* were spawned; every context has since been given GamePacket 2 and nothing
\* else
C31_Witness ==
    /\ Len(bots) = 2
    /\ Len(predSent) >= 1
    /\ ~predSent[1].taken
    /\ predSent[1].next = 1
    /\ commsSent = 1
    /\ \A c \in Alive :
          /\ updates[c] = <<2>>
          /\ predLog[c] = <<[tick |-> 2, pred |-> 0]>>
          /\ collected[c] = [ticks |-> <<2>>, comms |-> <<>>]
          /\ matchCommsIn[c] = <<>>

\* context c has a GamePacket or a MatchComm waiting for its service loop
HasWork(c) == gamePacketMessage[c] # NoMessage \/ matchCommsIn[c] # <<>>

\* C38: a worker is never left blocked on its condition variable while it
\* has work: every setGamePacket and every accepted addMatchComm with notify
\* is eventually followed by a pass of that worker's service loop that
\* collects it, under fair scheduling and without quit.
C38_NoLostWakeup ==
    /\ [](\A c \in Workers : pc[c] = "wait" => ~HasWork(c))
    /\ \A c \in Workers : HasWork(c) ~> ~HasWork(c)

\* a worker that was blocked in m_cv.wait has been notified of a GamePacket
\* and a MatchComm and has not yet run
C38_Witness ==
    \E c \in Workers :
       /\ pc[c] = "woken"
       /\ gamePacketMessage[c] # NoMessage
       /\ matchCommsIn[c] # <<>>

\* C39: at most one thread at a time executes the service-loop body of a
\* context, so the callbacks of one agent never run concurrently: the body
\* of the primary context runs only on the I/O service thread, inside the
\* handler that called loopOnce, and the body of every other context only on
\* the thread startService started for it.
C39_OneThreadPerAgent ==
    /\ \A call \in loopCalls : call[2] = ThreadOf(call[1])
    /\ pc[Primary] \notin {"none", "idle"} => ioPc \in {"reading", "wakeup"}
    /\ \A c \in Workers : pc[c] \in PassStages => c \in Alive /\ dtor[c] # "done"

\* a worker's MatchComm has woken the service thread, which runs the primary
\* context's matchComm callback while that worker is still in its own pass;
\* the primary has sent a MatchComm of its own before
C39_Witness ==
    /\ ioPc = "wakeup"
    /\ pc[Primary] = "matchComm"
    /\ loopCalls = {<<Primary, ServiceThread>>}
    /\ loopbacks = MaxLoopbacks
    /\ \E c \in Workers : pc[c] \in {"drain", "relock"}
    /\ \E i \in 1 .. Len(matchCommsWork[Primary]) :
          matchCommsWork[Primary][i].index \in UNION {bots[c].botIndices : c \in Workers \cap Alive}
    /\ \E d \in Workers \cap Alive :
          \E i \in 1 .. Len(matchCommsIn[d]) :
             matchCommsIn[d][i].index \in bots[Primary].botIndices

\* how often object b appears in the free lists of all shards
FreeEntries(b) ==
    Cardinality({<<sh, i>> \in Shards \X (1 .. MaxBuffers) :
                    i <= Len(free[sh]) /\ free[sh][i] = b})

\* C33 as stated: in every reachable state a pooled object is in a free list
\* if and only if its reference count is 0, it appears in at most one free
\* list and at most once, and getObject only hands out an object whose count
\* was 0.
C33_AsStated ==
    /\ \A b \in Allocated : (FreeEntries(b) >= 1) <=> (count[b] = 0)
    /\ \A b \in Allocated : FreeEntries(b) <= 1
    /\ \A t \in PoolThreads : tpc[t] = "taken" => count[tobj[t]] = 0

\* Refs the threads ts hold to object b
RECURSIVE RefsHeld(_, _)
RefsHeld(b, ts) ==
    IF ts = {} THEN 0
    ELSE LET t == CHOOSE x \in ts : TRUE
         IN  handles[t][b] + RefsHeld(b, ts \ {t})

\* the threads that have object b in hand inside getObject or putObject
InHand(b) == {t \in PoolThreads : tpc[t] # "idle" /\ tobj[t] = b}

\* C33: a pooled object that is in a free list has reference count 0; an
\* object with count 0 is in a free list or in the hand of exactly one
\* thread, which is between the pop (or the construction) and the increment
\* of getObject or between the decrement and the insertion of putObject; its
\* count is the number of Refs the threads hold to it; it appears in at most
\* one free list and at most once; getObject only hands out an object whose
\* count is 0.
C33_PoolRefCounting ==
    /\ \A b \in Allocated :
          /\ FreeEntries(b) >= 1 => count[b] = 0 /\ InHand(b) = {}
          /\ count[b] = 0 => (FreeEntries(b) = 1 /\ InHand(b) = {})
                             \/ (FreeEntries(b) = 0 /\ Cardinality(InHand(b)) = 1)
          /\ count[b] > 0 => InHand(b) = {}
          /\ count[b] = RefsHeld(b, PoolThreads)
          /\ FreeEntries(b) <= 1
    /\ \A t \in PoolThreads : tpc[t] = "taken" => count[tobj[t]] = 0

\* two threads share an object through a copied Ref while one thread is
\* about to put an object it has released into its free list and the other
\* has taken a recycled object that it has not counted yet
C33_Witness ==
    /\ \E b \in Allocated : \A t \in PoolThreads : handles[t][b] = 1
    /\ \E t, u \in PoolThreads :
          /\ tpc[t] = "recycle"
          /\ tpc[u] = "taken"
          /\ watermark[shardOf[tobj[u]]] > 0

====
